---- MODULE Spec2Model ----
(***************************************************************************)
(* A model of the general-ledger ETL pipeline: the extract functions       *)
(* (get_general_ledger_accounts, get_general_ledger_transactions and the   *)
(* retrying fetch_transactions_from_api), and the two flatteners           *)
(* (transform_general_ledger_accounts,                                     *)
(* transform_general_ledger_transactions).                                 *)
(*                                                                         *)
(* Python values are modelled as follows.  An Optional[int] is an integer  *)
(* with NoneInt standing for None; an Optional[str] is a string with       *)
(* NoneStr standing for None; an Optional[list] is a record                *)
(* [is_none, items].  A JSON text is a record [is_none, parses, items]:    *)
(* is_none says that no text was given, parses that json.loads accepts it, *)
(* items is the decoded array.  A JSON object is a record whose Has...     *)
(* fields say which keys are present.                                      *)
(***************************************************************************)
EXTENDS Integers, Sequences, FiniteSets, TLC

VARIABLES
    \* ---- extract: one call of an extract function ----
    call,                 \* the function called
    general_account_id,   \* argument (NoneInt when not given)
    start_date,           \* argument (NoneStr when not given)
    end_date,             \* argument (NoneStr when not given)
    json_data,            \* argument: a JSON text, possibly None
    response_text,        \* response.text of the last response that was not a 429
    pc,                   \* position of the call
    delay,                \* fetch_transactions_from_api: delay
    current_retries,      \* fetch_transactions_from_api: current_retries
    statuses,             \* status codes of the responses received, in order
    sleeps,               \* arguments of the time.sleep calls made, in order
    json_text,            \* json_transactions / json_accounts: the text handed to validate_json
    filtered,             \* whether transactions_json_search ran
    err,                  \* class of the exception raised ("" when none)
    err_msg,              \* its message
    text_result,          \* return value of fetch_transactions_from_api
    result,               \* return value of get_general_ledger_*

    \* ---- transform_general_ledger_transactions ----
    transactions,         \* argument
    t_pc,                 \* position of the call
    t_index,              \* number of loop iterations completed
    stored_ids,           \* stored_ids
    duplicates_found,     \* duplicates_found
    t_result,             \* result

    \* ---- transform_general_ledger_accounts ----
    accounts,             \* argument
    a_pc,                 \* position of the call
    a_index,              \* index of the account of the current outer iteration
    s_index,              \* number of its sub-accounts already handled
    sub_account_count,    \* sub_account_count
    transformed,          \* transformed
    a_err,                \* class of the exception raised ("" when none)

    \* ---- map_account_participation ----
    general_ledger_accounts_ids,            \* argument
    general_ledger_transactions_json_data,  \* argument
    m_pc,                 \* position of the call
    m_pending,            \* the account ids the loop has not reached yet
    m_queried,            \* the get_general_ledger_transactions calls made, in
                          \* order: [account_id, err]
    transactions_per_account,   \* transactions_per_account
    all_transactions,     \* all_transactions
    m_err,                \* class of the exception raised ("" when none)
    m_result,             \* the tuple returned: [returned, rows, transactions]

    \* ---- the load stage of a run (main and load_into_snowflake) ----
    run_id,               \* the run's token
    load_data,            \* the record list of each entity
    csv_files,            \* the file of each entity in /tmp: [exists, rows]
    db,                   \* the tables as the run's connection sees them:
                          \* [staging, target], each a table per entity
    committed,            \* the tables as committed in the warehouse
    before,               \* the committed tables when the run began
    l_pc,                 \* position of the run
    l_entity,             \* index in LoadOrder of the load in progress
    l_steps,              \* the steps begun, in order: <<entity, step>>
    l_err,                \* class of the exception raised ("" when none)
    l_committed,          \* whether the connection committed
    clock,                \* the time datetime.now() gives

    \* ---- main: the runs of the pipeline ----
    p_pc,                 \* the stage the run is at
    p_runs                \* the number of runs begun

\* the function called and its arguments
arguments == <<call, general_account_id, start_date, end_date, json_data>>

extract_vars ==
    <<call, general_account_id, start_date, end_date, json_data, response_text, pc,
      delay,
      current_retries, statuses, sleeps, json_text, filtered, err, err_msg,
      text_result, result>>

transactions_vars ==
    <<transactions, t_pc, t_index, stored_ids, duplicates_found, t_result>>

accounts_vars ==
    <<accounts, a_pc, a_index, s_index, sub_account_count, transformed, a_err>>

participation_vars ==
    <<general_ledger_accounts_ids, general_ledger_transactions_json_data, m_pc,
      m_pending, m_queried, transactions_per_account, all_transactions, m_err,
      m_result>>

load_vars ==
    <<run_id, load_data, csv_files, db, committed, before, l_pc, l_entity,
      l_steps, l_err, l_committed, clock>>

main_vars == <<p_pc, p_runs>>

vars ==
    <<extract_vars, transactions_vars, accounts_vars, participation_vars,
      load_vars, main_vars>>

\* what a step of one component leaves alone
others_of_extract ==
    <<transactions_vars, accounts_vars, participation_vars, load_vars, main_vars>>
others_of_transactions ==
    <<extract_vars, accounts_vars, participation_vars, load_vars, main_vars>>
others_of_accounts ==
    <<extract_vars, transactions_vars, participation_vars, load_vars, main_vars>>
others_of_participation ==
    <<extract_vars, transactions_vars, accounts_vars, load_vars, main_vars>>
others_of_load ==
    <<extract_vars, transactions_vars, accounts_vars, participation_vars, main_vars>>

-----------------------------------------------------------------------------
(* Bounds of the model. *)

\* longest JSON array handed to an extract function or returned by the API
MaxPayload == 2
\* longest list handed to transform_general_ledger_transactions
MaxTransactions == 3
\* most journal lines of a transaction
MaxLines == 2
\* longest list handed to transform_general_ledger_accounts
MaxAccounts == 2
\* most sub-accounts of an account
MaxSubAccounts == 2
\* records of one entity handed to a load function
MaxRows == 2
\* calls of merge_staging_table_into_target_table on the same tables
MaxMerges == 2

-----------------------------------------------------------------------------
(* Python values. *)

NoneInt == -1
NoneStr == "None"

\* Optional[list]: None, or a list
NoneList == [is_none |-> TRUE, items |-> <<>>]
SomeList(s) == [is_none |-> FALSE, items |-> s]

\* Python truthiness of an Optional[int]: None and 0 are falsy
FalsyInt(v) == v = NoneInt \/ v = 0
\* Python truthiness of an Optional[date]: only None is falsy
FalsyDate(v) == v = NoneStr

\* a JSON text: not given (None), or a str that json.loads accepts or rejects
NoText == [is_none |-> TRUE, parses |-> FALSE, items |-> <<>>]
BadText == [is_none |-> FALSE, parses |-> FALSE, items |-> <<>>]
JsonText(items) == [is_none |-> FALSE, parses |-> TRUE, items |-> items]

\* the sequences over S of length at most n
SeqUpTo(S, n) == UNION {[1..k -> S] : k \in 0..n}

\* the elements of a sequence
Range(s) == {s[i] : i \in DOMAIN s}

Reverse(s) == [i \in DOMAIN s |-> s[Len(s) + 1 - i]]

\* a record without the fields in `fields`: model_dump(exclude=fields)
ModelDumpExclude(r, fields) == [f \in (DOMAIN r) \ fields |-> r[f]]

-----------------------------------------------------------------------------
(* The record shapes of models/, and validate_json.                        *)
(*                                                                         *)
(* A raw account is a JSON object: Id, Name and ParentGLAccountId are its  *)
(* values, HasRequired says that every required key (Name, Type, SubType,  *)
(* IsActive, ...) is present with a value of its type, and SubAccounts is  *)
(* [present, is_none, items]: the key may be absent, null or an array.     *)

AbsentSubAccounts == [present |-> FALSE, is_none |-> FALSE, items |-> <<>>]
NullSubAccounts == [present |-> TRUE, is_none |-> TRUE, items |-> <<>>]
RawSubAccounts(s) == [present |-> TRUE, is_none |-> FALSE, items |-> s]

RawAccount(id, name, ok, parent, subs) ==
    [Id |-> id, Name |-> name, HasRequired |-> ok,
     ParentGLAccountId |-> parent, SubAccounts |-> subs]

\* GeneralLedgerAccount
Account(id, name, parent, subs) ==
    [id |-> id, name |-> name, parent_gl_account_id |-> parent,
     sub_accounts |-> subs]

\* whether a raw account has the shape of GeneralLedgerAccount: the required
\* fields, and every element of SubAccounts (when it is an array) an account
RECURSIVE ValidAccount(_)
ValidAccount(raw) ==
    /\ raw.HasRequired
    /\ \A i \in DOMAIN raw.SubAccounts.items : ValidAccount(raw.SubAccounts.items[i])

\* the GeneralLedgerAccount built from a raw account of that shape: the aliases
\* become field names, an absent SubAccounts becomes the default empty list and
\* a null SubAccounts stays None
RECURSIVE ToAccount(_)
ToAccount(raw) ==
    Account(raw.Id, raw.Name, raw.ParentGLAccountId,
            IF ~raw.SubAccounts.present THEN SomeList(<<>>)
            ELSE IF raw.SubAccounts.is_none THEN NoneList
            ELSE SomeList([i \in DOMAIN raw.SubAccounts.items |->
                              ToAccount(raw.SubAccounts.items[i])]))

\* A raw journal line, journal and transaction.  HasGLAccount, HasLines and
\* HasJournal say that the key is present (and not null); HasRequired says that
\* the other required keys are.
RawLine(hasAccount, account, amount, memo) ==
    [HasGLAccount |-> hasAccount, GLAccount |-> account, Amount |-> amount,
     Memo |-> memo]

RawJournal(memo, hasLines, lines) ==
    [Memo |-> memo, HasLines |-> hasLines, Lines |-> lines]

RawTransaction(id, date, type, ok, hasJournal, journal) ==
    [Id |-> id, Date |-> date, TransactionType |-> type, HasRequired |-> ok,
     HasJournal |-> hasJournal, Journal |-> journal]

\* JournalLine, Journal, GeneralLedgerTransaction
JournalLine(account, amount, memo) ==
    [gl_account |-> account, amount |-> amount, memo |-> memo]

Journal(memo, lines) == [memo |-> memo, lines |-> lines]

Transaction(id, date, type, journal) ==
    [id |-> id, date |-> date, transaction_type |-> type, journal |-> journal]

ValidLine(raw) == raw.HasGLAccount /\ ValidAccount(raw.GLAccount)

ValidTransaction(raw) ==
    /\ raw.HasRequired
    /\ raw.HasJournal
    /\ raw.Journal.HasLines
    /\ \A i \in DOMAIN raw.Journal.Lines : ValidLine(raw.Journal.Lines[i])

ToLine(raw) == JournalLine(ToAccount(raw.GLAccount), raw.Amount, raw.Memo)

ToTransaction(raw) ==
    Transaction(raw.Id, raw.Date, raw.TransactionType,
                Journal(raw.Journal.Memo,
                        [i \in DOMAIN raw.Journal.Lines |-> ToLine(raw.Journal.Lines[i])]))

\* the elements of value whose valid flag is set, in order
RECURSIVE KeepValid(_, _)
KeepValid(valid, value) ==
    IF valid = <<>> THEN <<>>
    ELSE (IF Head(valid) THEN <<Head(value)>> ELSE <<>>)
             \o KeepValid(Tail(valid), Tail(value))

\* a faulty validate_json, which drops the elements that lack the shape and
\* returns the others
ValidateJsonPartial(parses, valid, value) ==
    IF parses
    THEN [ok |-> TRUE, value |-> KeepValid(valid, value)]
    ELSE [ok |-> FALSE, value |-> <<>>]

\* TypeAdapter(list[...]).validate_json on a text: `parses` says that the text
\* is JSON, valid[i] that its i-th element has the shape, value[i] is the typed
\* record of the i-th element.  The typed list when the text is JSON and every
\* element has the shape, and a ValidationError otherwise
ValidateJson(parses, valid, value) ==
    IF parses /\ \A i \in DOMAIN valid : valid[i]
    THEN [ok |-> TRUE, value |-> value]
    ELSE [ok |-> FALSE, value |-> <<>>]

\* GeneralLedgerAccounts.validate_json
GeneralLedgerAccounts(text) ==
    ValidateJson(text.parses,
                 [i \in DOMAIN text.items |-> ValidAccount(text.items[i])],
                 [i \in DOMAIN text.items |-> ToAccount(text.items[i])])

\* GeneralLedgerTransactions.validate_json
GeneralLedgerTransactions(text) ==
    ValidateJson(text.parses,
                 [i \in DOMAIN text.items |-> ValidTransaction(text.items[i])],
                 [i \in DOMAIN text.items |-> ToTransaction(text.items[i])])

-----------------------------------------------------------------------------
(* transactions_json_search and fetch_transactions_from_json. *)

\* the Id of a GLAccount object that has no "Id" key
MissingInt == -2

\* the loop over the lines of a journal: a line without GLAccount is passed
\* over, account["Id"] raises KeyError on an account without Id, the first line
\* of the account ends the loop with the transaction appended
RECURSIVE ScanLines(_, _)
ScanLines(lines, id) ==
    IF lines = <<>> THEN "passed"
    ELSE IF ~Head(lines).HasGLAccount THEN ScanLines(Tail(lines), id)
    ELSE IF Head(lines).GLAccount.Id = MissingInt THEN "KeyError"
    ELSE IF Head(lines).GLAccount.Id = id THEN "appended"
    ELSE ScanLines(Tail(lines), id)

\* what the body of the loop of transactions_json_search does with a transaction
ScanTransaction(json_transaction, id) ==
    IF ~json_transaction.HasJournal THEN "passed"
    ELSE IF ~json_transaction.Journal.HasLines THEN "passed"
    ELSE ScanLines(json_transaction.Journal.Lines, id)

\* a faulty test, which looks at the first line of the journal only
MatchesFirstLine(json_transaction, id) ==
    /\ json_transaction.HasJournal
    /\ json_transaction.Journal.HasLines
    /\ json_transaction.Journal.Lines # <<>>
    /\ ScanLines(<<json_transaction.Journal.Lines[1]>>, id) = "appended"

\* whether the loop of transactions_json_search appends the transaction
Matches(json_transaction, id) == ScanTransaction(json_transaction, id) = "appended"

\* whether transactions_json_search raises KeyError: the loop comes to a line
\* whose GLAccount has no Id in one of the transactions
SearchRaises(json_transactions, id) ==
    \E n \in DOMAIN json_transactions :
        ScanTransaction(json_transactions[n], id) = "KeyError"

\* the text transactions_json_search returns: the matching transactions, in order
transactions_json_search(json_transactions, id) ==
    JsonText(SelectSeq(json_transactions, LAMBDA t : Matches(t, id)))

-----------------------------------------------------------------------------
(* The inputs of the extract functions. *)

\* the account embedded in a journal line, as in the API's payloads: a full
\* account object whose SubAccounts is null
EmbeddedAccount(id) == RawAccount(id, "Rental Income", TRUE, NoneInt, NullSubAccounts)

\* a GLAccount object without the "Id" key
AccountWithoutId == RawAccount(MissingInt, "No id", FALSE, NoneInt, NullSubAccounts)

\* the raw transactions the payloads are made of: well-formed ones, one without
\* a required header key, one without Journal, one whose Journal has no Lines,
\* one with a line without GLAccount, one with an empty line list, one with a
\* line whose GLAccount has no Id
RawTransactionPool ==
    { RawTransaction(1, "2024-12-15", "Charge", TRUE, TRUE,
          RawJournal("Renewal", TRUE, <<RawLine(TRUE, EmbeddedAccount(1), 60, "a")>>)),
      RawTransaction(2, "2024-12-16", "Payment", TRUE, TRUE,
          RawJournal("Rent", TRUE, <<RawLine(TRUE, EmbeddedAccount(2), 25, "b"),
                                     RawLine(TRUE, EmbeddedAccount(0), 35, "c")>>)),
      RawTransaction(3, "2024-12-17", "Charge", FALSE, TRUE,
          RawJournal("Late fee", TRUE, <<RawLine(TRUE, EmbeddedAccount(1), 10, "d")>>)),
      RawTransaction(4, "2024-12-18", "Charge", TRUE, FALSE,
          RawJournal("", FALSE, <<>>)),
      RawTransaction(5, "2024-12-19", "Charge", TRUE, TRUE,
          RawJournal("No lines", FALSE, <<>>)),
      RawTransaction(6, "2024-12-20", "Charge", TRUE, TRUE,
          RawJournal("No account", TRUE, <<RawLine(FALSE, EmbeddedAccount(0), 5, "e")>>)),
      RawTransaction(7, "2024-12-21", "Charge", TRUE, TRUE,
          RawJournal("Empty", TRUE, <<>>)),
      RawTransaction(8, "2024-12-22", "Payment", TRUE, TRUE,
          RawJournal("Transfer", TRUE, <<RawLine(TRUE, EmbeddedAccount(1), 40, "f"),
                                         RawLine(TRUE, EmbeddedAccount(2), 40, "g"),
                                         RawLine(TRUE, EmbeddedAccount(1), 5, "h")>>)),
      RawTransaction(9, "2024-12-23", "Charge", TRUE, TRUE,
          RawJournal("No id", TRUE, <<RawLine(TRUE, EmbeddedAccount(1), 15, "i"),
                                      RawLine(TRUE, AccountWithoutId, 15, "j")>>)) }

\* the raw accounts the payloads are made of: well-formed ones with and without
\* sub-accounts, one with null SubAccounts, one without a required key, and one
\* whose sub-account lacks a required key
RawAccountPool ==
    { RawAccount(1, "Cash", TRUE, NoneInt,
          RawSubAccounts(<<RawAccount(2, "Petty cash", TRUE, 1, AbsentSubAccounts)>>)),
      RawAccount(2, "Receivables", TRUE, NoneInt, RawSubAccounts(<<>>)),
      RawAccount(3, "Rent", TRUE, NoneInt, NullSubAccounts),
      RawAccount(4, "Broken", FALSE, NoneInt, AbsentSubAccounts),
      RawAccount(5, "Parent", TRUE, NoneInt,
          RawSubAccounts(<<RawAccount(6, "Broken child", FALSE, 5, AbsentSubAccounts)>>)) }

\* the texts an account source or caller can supply
AccountTexts == {BadText} \cup {JsonText(s) : s \in SeqUpTo(RawAccountPool, MaxPayload)}

\* the texts a transaction source or caller can supply
TransactionTexts ==
    {BadText} \cup {JsonText(s) : s \in SeqUpTo(RawTransactionPool, MaxPayload)}

\* the account ids a caller passes: None, 0 and ids of accounts
GeneralAccountIds == {NoneInt, 0, 1, 2}

Dates == {NoneStr, "2024-01-01"}

\* the status codes the API answers with
StatusCodes == {200, 404, 429, 500}

\* a faulty raise_for_status, which raises on a 4xx status only
RaisesForClientErrorOnly(status_code) == status_code >= 400 /\ status_code < 500

\* response.raise_for_status() raises HTTPError on a 4xx or 5xx status
RaisesForStatus(status_code) == status_code >= 400 /\ status_code < 600

Calls ==
    {"get_general_ledger_accounts", "get_general_ledger_transactions",
     "fetch_transactions_from_api"}

-----------------------------------------------------------------------------
(* The extract functions, one call at a time. *)

\* fetch_transactions_from_api: delay = 2
BaseDelay == 2
\* fetch_transactions_from_api: maximum_retries = 5
maximum_retries == 5

ExtractInit ==
    /\ call \in Calls
    /\ general_account_id \in
          IF call = "get_general_ledger_accounts" THEN {NoneInt} ELSE GeneralAccountIds
    /\ start_date \in IF call = "get_general_ledger_accounts" THEN {NoneStr} ELSE Dates
    /\ end_date \in IF call = "get_general_ledger_accounts" THEN {NoneStr} ELSE Dates
    /\ json_data \in
          CASE call = "get_general_ledger_accounts" -> {NoText} \cup AccountTexts
            [] call = "get_general_ledger_transactions" -> {NoText} \cup TransactionTexts
            [] OTHER -> {NoText}
    /\ response_text = NoText
    /\ pc = IF call = "fetch_transactions_from_api" THEN "fetch" ELSE "start"
    /\ delay = 0
    /\ current_retries = 0
    /\ statuses = <<>>
    /\ sleeps = <<>>
    /\ json_text = NoText
    /\ filtered = FALSE
    /\ err = ""
    /\ err_msg = ""
    /\ text_result = NoText
    /\ result = <<>>

\* no extract function is running
ExtractIdle ==
    /\ call = "none"
    /\ general_account_id = NoneInt
    /\ start_date = NoneStr
    /\ end_date = NoneStr
    /\ json_data = NoText
    /\ response_text = NoText
    /\ pc = "done"
    /\ delay = 0
    /\ current_retries = 0
    /\ statuses = <<>>
    /\ sleeps = <<>>
    /\ json_text = NoText
    /\ filtered = FALSE
    /\ err = ""
    /\ err_msg = ""
    /\ text_result = NoText
    /\ result = <<>>

\* the call ends with an exception of class cls
Raise(cls, msg) ==
    /\ pc' = "done"
    /\ err' = cls
    /\ err_msg' = msg

\* get_general_ledger_transactions, `if not general_account_id: raise ValueError`
GetTransactionsMissingId ==
    /\ pc = "start"
    /\ call = "get_general_ledger_transactions"
    /\ FalsyInt(general_account_id)
    /\ Raise("ValueError", "General account ID is required")
    /\ UNCHANGED <<arguments, response_text, delay,
                   current_retries, statuses, sleeps, json_text, filtered,
                   text_result, result>>
    /\ UNCHANGED others_of_extract

\* get_general_ledger_transactions with json_data: fetch_transactions_from_json
\* decodes the text (json.loads raises on a text that is not JSON, and the
\* handler re-raises) and filters it
GetTransactionsFromJson ==
    /\ pc = "start"
    /\ call = "get_general_ledger_transactions"
    /\ ~FalsyInt(general_account_id)
    /\ ~json_data.is_none
    /\ IF ~json_data.parses
       THEN /\ Raise("JSONDecodeError", "Expecting value")
            /\ UNCHANGED <<json_text, filtered>>
       ELSE IF SearchRaises(json_data.items, general_account_id)
       THEN /\ Raise("KeyError", "'Id'")
            /\ UNCHANGED <<json_text, filtered>>
       ELSE /\ json_text' = transactions_json_search(json_data.items, general_account_id)
            /\ filtered' = TRUE
            /\ pc' = "validate"
            /\ UNCHANGED <<err, err_msg>>
    /\ UNCHANGED <<arguments, response_text, delay,
                   current_retries, statuses, sleeps, text_result, result>>
    /\ UNCHANGED others_of_extract

\* get_general_ledger_transactions without json_data and without a date
GetTransactionsMissingDates ==
    /\ pc = "start"
    /\ call = "get_general_ledger_transactions"
    /\ ~FalsyInt(general_account_id)
    /\ json_data.is_none
    /\ FalsyDate(start_date) \/ FalsyDate(end_date)
    /\ Raise("ValueError", "Start and end dates are required for API call")
    /\ UNCHANGED <<arguments, response_text, delay,
                   current_retries, statuses, sleeps, json_text, filtered,
                   text_result, result>>
    /\ UNCHANGED others_of_extract

\* get_general_ledger_transactions without json_data calls fetch_transactions_from_api
GetTransactionsCallApi ==
    /\ pc = "start"
    /\ call = "get_general_ledger_transactions"
    /\ ~FalsyInt(general_account_id)
    /\ json_data.is_none
    /\ ~(FalsyDate(start_date) \/ FalsyDate(end_date))
    /\ pc' = "fetch"
    /\ UNCHANGED <<arguments, response_text, delay,
                   current_retries, statuses, sleeps, json_text, filtered, err,
                   err_msg, text_result, result>>
    /\ UNCHANGED others_of_extract

\* fetch_transactions_from_api up to its loop: the check of the dates, and
\* delay = 2, current_retries = 0
FetchEnter ==
    /\ pc = "fetch"
    /\ IF FalsyDate(start_date) \/ FalsyDate(end_date)
       THEN /\ Raise("ValueError", "Start and end dates are required for API call")
            /\ UNCHANGED <<delay, current_retries>>
       ELSE /\ delay' = BaseDelay
            /\ current_retries' = 0
            /\ pc' = "request"
            /\ UNCHANGED <<err, err_msg>>
    /\ UNCHANGED <<arguments, response_text,
                   statuses, sleeps, json_text, filtered, text_result, result>>
    /\ UNCHANGED others_of_extract

\* a faulty iteration on a 429, which does not sleep after the last attempt
FetchRateLimitedNoLastSleep ==
    /\ pc = "request"
    /\ current_retries < maximum_retries
    /\ statuses' = Append(statuses, 429)
    /\ sleeps' = IF current_retries + 1 < maximum_retries
                 THEN Append(sleeps, delay)
                 ELSE sleeps
    /\ delay' = delay * 2
    /\ current_retries' = current_retries + 1
    /\ UNCHANGED <<arguments, response_text, pc,
                   json_text, filtered, err, err_msg, text_result, result>>
    /\ UNCHANGED others_of_extract

\* a faulty iteration on a 429, whose delay grows by the base instead of doubling
FetchRateLimitedLinear ==
    /\ pc = "request"
    /\ current_retries < maximum_retries
    /\ statuses' = Append(statuses, 429)
    /\ sleeps' = Append(sleeps, delay)
    /\ delay' = delay + BaseDelay
    /\ current_retries' = current_retries + 1
    /\ UNCHANGED <<arguments, response_text, pc,
                   json_text, filtered, err, err_msg, text_result, result>>
    /\ UNCHANGED others_of_extract

\* one iteration of the loop in which the response is 429: sleep, double the
\* delay, count the retry
FetchRateLimited ==
    /\ pc = "request"
    /\ current_retries < maximum_retries
    /\ statuses' = Append(statuses, 429)
    /\ sleeps' = Append(sleeps, delay)
    /\ delay' = delay * 2
    /\ current_retries' = current_retries + 1
    /\ UNCHANGED <<arguments, response_text, pc,
                   json_text, filtered, err, err_msg, text_result, result>>
    /\ UNCHANGED others_of_extract

\* a faulty iteration on another response, which returns the transactions of the
\* body that match the account instead of the body
FetchAnsweredFiltered(status_code, body) ==
    /\ pc = "request"
    /\ current_retries < maximum_retries
    /\ status_code # 429
    /\ statuses' = Append(statuses, status_code)
    /\ response_text' = body
    /\ IF RaisesForStatus(status_code)
       THEN /\ Raise("HTTPError", "API error")
            /\ UNCHANGED <<text_result, json_text>>
       ELSE LET text == IF body.parses
                        THEN transactions_json_search(body.items, general_account_id)
                        ELSE body
            IN /\ text_result' = text
               /\ IF call = "fetch_transactions_from_api"
                  THEN pc' = "done" /\ UNCHANGED json_text
                  ELSE pc' = "validate" /\ json_text' = text
               /\ UNCHANGED <<err, err_msg>>
    /\ UNCHANGED <<arguments, delay,
                   current_retries, sleeps, filtered, result>>
    /\ UNCHANGED others_of_extract

\* one iteration of the loop in which the response is not 429:
\* raise_for_status(), then return response.text (to the caller, or to
\* get_general_ledger_transactions, which goes on to validate it)
FetchAnswered(status_code, body) ==
    /\ pc = "request"
    /\ current_retries < maximum_retries
    /\ status_code # 429
    /\ statuses' = Append(statuses, status_code)
    /\ response_text' = body
    /\ IF RaisesForStatus(status_code)
       THEN /\ Raise("HTTPError", "API error")
            /\ UNCHANGED <<text_result, json_text>>
       ELSE /\ text_result' = body
            /\ IF call = "fetch_transactions_from_api"
               THEN pc' = "done" /\ UNCHANGED json_text
               ELSE pc' = "validate" /\ json_text' = body
            /\ UNCHANGED <<err, err_msg>>
    /\ UNCHANGED <<arguments, delay,
                   current_retries, sleeps, filtered, result>>
    /\ UNCHANGED others_of_extract

\* the loop ends with current_retries = maximum_retries
FetchRetriesExhausted ==
    /\ pc = "request"
    /\ ~(current_retries < maximum_retries)
    /\ Raise("Exception", "Max retries exceeded while fetching transactions from API")
    /\ UNCHANGED <<arguments, response_text, delay,
                   current_retries, statuses, sleeps, json_text, filtered,
                   text_result, result>>
    /\ UNCHANGED others_of_extract

\* get_general_ledger_transactions: GeneralLedgerTransactions.validate_json
ValidateTransactions ==
    /\ pc = "validate"
    /\ call = "get_general_ledger_transactions"
    /\ LET v == GeneralLedgerTransactions(json_text) IN
         IF v.ok
         THEN /\ result' = v.value
              /\ pc' = "done"
              /\ UNCHANGED <<err, err_msg>>
         ELSE /\ Raise("ValidationError", "validation error")
              /\ UNCHANGED result
    /\ UNCHANGED <<arguments, response_text, delay,
                   current_retries, statuses, sleeps, json_text, filtered, text_result>>
    /\ UNCHANGED others_of_extract

\* get_general_ledger_accounts with json_data: the text is used as it is
GetAccountsFromJson ==
    /\ pc = "start"
    /\ call = "get_general_ledger_accounts"
    /\ ~json_data.is_none
    /\ json_text' = json_data
    /\ pc' = "validate"
    /\ UNCHANGED <<arguments, response_text, delay,
                   current_retries, statuses, sleeps, filtered, err, err_msg,
                   text_result, result>>
    /\ UNCHANGED others_of_extract

\* get_general_ledger_accounts without json_data: one request, raise_for_status()
GetAccountsFromApi(status_code, body) ==
    /\ pc = "start"
    /\ call = "get_general_ledger_accounts"
    /\ json_data.is_none
    /\ statuses' = Append(statuses, status_code)
    /\ response_text' = body
    /\ IF RaisesForStatus(status_code)
       THEN /\ Raise("HTTPError", "API error")
            /\ UNCHANGED json_text
       ELSE /\ json_text' = body
            /\ pc' = "validate"
            /\ UNCHANGED <<err, err_msg>>
    /\ UNCHANGED <<arguments, delay,
                   current_retries, sleeps, filtered, text_result, result>>
    /\ UNCHANGED others_of_extract

\* get_general_ledger_accounts: GeneralLedgerAccounts.validate_json
ValidateAccounts ==
    /\ pc = "validate"
    /\ call = "get_general_ledger_accounts"
    /\ LET v == GeneralLedgerAccounts(json_text) IN
         IF v.ok
         THEN /\ result' = v.value
              /\ pc' = "done"
              /\ UNCHANGED <<err, err_msg>>
         ELSE /\ Raise("ValidationError", "validation error")
              /\ UNCHANGED result
    /\ UNCHANGED <<arguments, response_text, delay,
                   current_retries, statuses, sleeps, json_text, filtered, text_result>>
    /\ UNCHANGED others_of_extract

ExtractNext ==
    \/ GetTransactionsMissingId
    \/ GetTransactionsFromJson
    \/ GetTransactionsMissingDates
    \/ GetTransactionsCallApi
    \/ FetchEnter
    \/ FetchRateLimited
    \/ \E status_code \in StatusCodes, body \in TransactionTexts :
          FetchAnswered(status_code, body)
    \/ FetchRetriesExhausted
    \/ ValidateTransactions
    \/ GetAccountsFromJson
    \/ \E status_code \in StatusCodes, body \in AccountTexts :
          GetAccountsFromApi(status_code, body)
    \/ ValidateAccounts

-----------------------------------------------------------------------------
(* transform_general_ledger_transactions. *)

\* the k-th journal line of the inputs
LineAt(k) ==
    JournalLine(Account(k, "Rental Income", NoneInt, NoneList), 10 * k,
                IF k % 2 = 1 THEN "debit" ELSE "credit")

AllLines == [k \in 1..MaxLines |-> LineAt(k)]

\* the line lists of the inputs: the first k lines, in both orders
LineLists ==
    {SubSeq(AllLines, 1, k) : k \in 0..MaxLines}
        \cup {Reverse(SubSeq(AllLines, 1, k)) : k \in 0..MaxLines}

\* id, date, transaction_type and journal memo of the input transactions: two
\* transactions share id 1 and differ in every other field
TransactionHeaders ==
    { <<1, "2024-12-15", "Charge", "orig">>,
      <<1, "2024-12-16", "Payment", "dup">>,
      <<2, "2024-12-17", "Charge", "other">> }

TransactionPool ==
    {Transaction(h[1], h[2], h[3], Journal(h[4], l)) :
        h \in TransactionHeaders, l \in LineLists}

\* a faulty flattening of a line, which does not exclude gl_account
FlattenLineKeepAccount(line) ==
    line @@ [general_ledger_account_id |-> line.gl_account.id]

\* the FlatJournalLine of a line: base_line = line.model_dump(exclude={"gl_account"}),
\* base_line["general_ledger_account_id"] = line.gl_account.id
FlattenLine(line) ==
    ModelDumpExclude(line, {"gl_account"})
        @@ [general_ledger_account_id |-> line.gl_account.id]

\* the GeneralLedgerTransactionTransformed of a transaction
FlattenTransaction(transaction) ==
    ModelDumpExclude(transaction, {"journal"})
        @@ [journal_memo |-> transaction.journal.memo,
            lines |-> [i \in DOMAIN transaction.journal.lines |->
                          FlattenLine(transaction.journal.lines[i])]]

TransactionsInit ==
    /\ transactions \in SeqUpTo(TransactionPool, MaxTransactions)
    /\ t_pc = "loop"
    /\ t_index = 0
    /\ stored_ids = {}
    /\ duplicates_found = 0
    /\ t_result = <<>>

\* transform_general_ledger_transactions is not running
TransactionsIdle ==
    /\ transactions = <<>>
    /\ t_pc = "done"
    /\ t_index = 0
    /\ stored_ids = {}
    /\ duplicates_found = 0
    /\ t_result = <<>>

\* a faulty iteration on a duplicate, which merges the duplicate's journal memo
\* into the record already emitted for its id
SkipDuplicateMergeMemo ==
    /\ t_pc = "loop"
    /\ t_index < Len(transactions)
    /\ transactions[t_index + 1].id \in stored_ids
    /\ duplicates_found' = duplicates_found + 1
    /\ t_index' = t_index + 1
    /\ t_result' =
          [i \in DOMAIN t_result |->
              IF t_result[i].id = transactions[t_index + 1].id
              THEN [t_result[i] EXCEPT !.journal_memo = transactions[t_index + 1].journal.memo]
              ELSE t_result[i]]
    /\ UNCHANGED <<transactions, t_pc, stored_ids>>
    /\ UNCHANGED others_of_transactions

\* a loop iteration on a transaction whose id is in stored_ids
SkipDuplicate ==
    /\ t_pc = "loop"
    /\ t_index < Len(transactions)
    /\ transactions[t_index + 1].id \in stored_ids
    /\ duplicates_found' = duplicates_found + 1
    /\ t_index' = t_index + 1
    /\ UNCHANGED <<transactions, t_pc, stored_ids, t_result>>
    /\ UNCHANGED others_of_transactions

\* a faulty iteration on a new id, which does not record the id in stored_ids
TransformTransactionNoStore ==
    /\ t_pc = "loop"
    /\ t_index < Len(transactions)
    /\ transactions[t_index + 1].id \notin stored_ids
    /\ t_result' = Append(t_result, FlattenTransaction(transactions[t_index + 1]))
    /\ t_index' = t_index + 1
    /\ UNCHANGED <<transactions, t_pc, stored_ids, duplicates_found>>
    /\ UNCHANGED others_of_transactions

\* a loop iteration on a transaction whose id is not in stored_ids
TransformTransaction ==
    /\ t_pc = "loop"
    /\ t_index < Len(transactions)
    /\ transactions[t_index + 1].id \notin stored_ids
    /\ stored_ids' = stored_ids \cup {transactions[t_index + 1].id}
    /\ t_result' = Append(t_result, FlattenTransaction(transactions[t_index + 1]))
    /\ t_index' = t_index + 1
    /\ UNCHANGED <<transactions, t_pc, duplicates_found>>
    /\ UNCHANGED others_of_transactions

\* return result
TransformTransactionsReturn ==
    /\ t_pc = "loop"
    /\ t_index = Len(transactions)
    /\ t_pc' = "done"
    /\ UNCHANGED <<transactions, t_index, stored_ids, duplicates_found, t_result>>
    /\ UNCHANGED others_of_transactions

TransactionsNext ==
    \/ SkipDuplicate
    \/ TransformTransaction
    \/ TransformTransactionsReturn

-----------------------------------------------------------------------------
(* transform_general_ledger_accounts. *)

\* a second nesting level: a sub-account of a sub-account
NestedAccount == Account(9, "Nested", 2, SomeList(<<>>))

\* the k-th sub-account of the inputs; the first has the id of a top-level
\* account, the odd ones have a sub-account of their own
SubAccountAt(k) ==
    Account(k + 1, IF k % 2 = 1 THEN "Petty cash" ELSE "Savings", 1,
            IF k % 2 = 1 THEN SomeList(<<NestedAccount>>) ELSE NoneList)

AllSubAccounts == [k \in 1..MaxSubAccounts |-> SubAccountAt(k)]

\* the sub_accounts values of the inputs: None, and the first k sub-accounts
\* in both orders
SubAccountLists ==
    {NoneList}
        \cup {SomeList(SubSeq(AllSubAccounts, 1, k)) : k \in 0..MaxSubAccounts}
        \cup {SomeList(Reverse(SubSeq(AllSubAccounts, 1, k))) : k \in 0..MaxSubAccounts}

\* id, name and parent_gl_account_id of the top-level input accounts
AccountHeaders ==
    { <<1, "Cash", NoneInt>>, <<2, "Rent", NoneInt>>, <<1, "Cash copy", 7>> }

AccountPool ==
    {Account(h[1], h[2], h[3], subs) : h \in AccountHeaders, subs \in SubAccountLists}

\* a faulty flattening, which loses the parent of the account
FlattenAccountWithoutParent(account) ==
    [ModelDumpExclude(account, {"sub_accounts"}) EXCEPT !.parent_gl_account_id = NoneInt]

\* GeneralLedgerAccountFlattened(**account.model_dump(exclude={"sub_accounts"}))
FlattenAccount(account) == ModelDumpExclude(account, {"sub_accounts"})

AccountsInit ==
    /\ accounts \in SeqUpTo(AccountPool, MaxAccounts)
    /\ a_pc = "loop"
    /\ a_index = 0
    /\ s_index = 0
    /\ sub_account_count = 0
    /\ transformed = <<>>
    /\ a_err = ""

\* transform_general_ledger_accounts is not running
AccountsIdle ==
    /\ accounts = <<>>
    /\ a_pc = "done"
    /\ a_index = 0
    /\ s_index = 0
    /\ sub_account_count = 0
    /\ transformed = <<>>
    /\ a_err = ""

\* an outer iteration up to the inner loop: append the account itself
AppendAccount ==
    /\ a_pc = "loop"
    /\ a_index < Len(accounts)
    /\ transformed' = Append(transformed, FlattenAccount(accounts[a_index + 1]))
    /\ a_index' = a_index + 1
    /\ s_index' = 0
    /\ a_pc' = "sub_accounts"
    /\ UNCHANGED <<accounts, sub_account_count, a_err>>
    /\ UNCHANGED others_of_accounts

\* `for sub_account in account.sub_accounts` on None raises TypeError
IterateNone ==
    /\ a_pc = "sub_accounts"
    /\ accounts[a_index].sub_accounts.is_none
    /\ a_err' = "TypeError"
    /\ a_pc' = "done"
    /\ UNCHANGED <<accounts, a_index, s_index, sub_account_count, transformed>>
    /\ UNCHANGED others_of_accounts

\* a faulty inner iteration, which walks the sub-accounts from the last to the
\* first
AppendSubAccountBackwards ==
    /\ a_pc = "sub_accounts"
    /\ ~accounts[a_index].sub_accounts.is_none
    /\ s_index < Len(accounts[a_index].sub_accounts.items)
    /\ sub_account_count' = sub_account_count + 1
    /\ transformed' =
          Append(transformed,
                 FlattenAccount(accounts[a_index].sub_accounts.items[
                     Len(accounts[a_index].sub_accounts.items) - s_index]))
    /\ s_index' = s_index + 1
    /\ UNCHANGED <<accounts, a_pc, a_index, a_err>>
    /\ UNCHANGED others_of_accounts

\* a faulty inner iteration, which leaves out a sub-account whose id was
\* already emitted
AppendSubAccountUnlessKnown ==
    /\ a_pc = "sub_accounts"
    /\ ~accounts[a_index].sub_accounts.is_none
    /\ s_index < Len(accounts[a_index].sub_accounts.items)
    /\ LET sub_account == accounts[a_index].sub_accounts.items[s_index + 1] IN
         IF \E n \in DOMAIN transformed : transformed[n].id = sub_account.id
         THEN UNCHANGED <<sub_account_count, transformed>>
         ELSE /\ sub_account_count' = sub_account_count + 1
              /\ transformed' = Append(transformed, FlattenAccount(sub_account))
    /\ s_index' = s_index + 1
    /\ UNCHANGED <<accounts, a_pc, a_index, a_err>>
    /\ UNCHANGED others_of_accounts

\* an inner iteration: append the sub-account
AppendSubAccount ==
    /\ a_pc = "sub_accounts"
    /\ ~accounts[a_index].sub_accounts.is_none
    /\ s_index < Len(accounts[a_index].sub_accounts.items)
    /\ sub_account_count' = sub_account_count + 1
    /\ transformed' =
          Append(transformed, FlattenAccount(accounts[a_index].sub_accounts.items[s_index + 1]))
    /\ s_index' = s_index + 1
    /\ UNCHANGED <<accounts, a_pc, a_index, a_err>>
    /\ UNCHANGED others_of_accounts

\* the inner loop ends
SubAccountsDone ==
    /\ a_pc = "sub_accounts"
    /\ ~accounts[a_index].sub_accounts.is_none
    /\ s_index = Len(accounts[a_index].sub_accounts.items)
    /\ a_pc' = "loop"
    /\ UNCHANGED <<accounts, a_index, s_index, sub_account_count, transformed, a_err>>
    /\ UNCHANGED others_of_accounts

\* return transformed
TransformAccountsReturn ==
    /\ a_pc = "loop"
    /\ a_index = Len(accounts)
    /\ a_pc' = "done"
    /\ UNCHANGED <<accounts, a_index, s_index, sub_account_count, transformed, a_err>>
    /\ UNCHANGED others_of_accounts

AccountsNext ==
    \/ AppendAccount
    \/ IterateNone
    \/ AppendSubAccount
    \/ SubAccountsDone
    \/ TransformAccountsReturn

-----------------------------------------------------------------------------
(* map_account_participation. *)

\* the account ids of the inputs: 0, two ids that journal lines of the
\* payloads carry, and one that no line carries
ParticipationAccountIds == {0, 1, 2, 3}

\* get_general_ledger_transactions(json_data=..., general_account_id=...) as
\* map_account_participation calls it: the id test, json.loads, the filter and
\* the validation; err is the class of the exception raised ("" when none)
GetTransactionsOfAccount(json, account_id) ==
    IF FalsyInt(account_id) THEN [err |-> "ValueError", value |-> <<>>]
    ELSE IF ~json.parses THEN [err |-> "JSONDecodeError", value |-> <<>>]
    ELSE IF SearchRaises(json.items, account_id) THEN [err |-> "KeyError", value |-> <<>>]
    ELSE LET v == GeneralLedgerTransactions(
                      transactions_json_search(json.items, account_id))
         IN  IF v.ok THEN [err |-> "", value |-> v.value]
             ELSE [err |-> "ValidationError", value |-> <<>>]

\* GeneralLedgerAccountTransactions
AccountTransaction(account_id, transaction_id) ==
    [account_id |-> account_id, transaction_id |-> transaction_id]

NothingReturned == [returned |-> FALSE, rows |-> <<>>, transactions |-> <<>>]

ParticipationInit ==
    /\ general_ledger_accounts_ids \in SUBSET ParticipationAccountIds
    /\ general_ledger_transactions_json_data \in TransactionTexts
    /\ m_pc = "loop"
    /\ m_pending = general_ledger_accounts_ids
    /\ m_queried = <<>>
    /\ transactions_per_account = <<>>
    /\ all_transactions = <<>>
    /\ m_err = ""
    /\ m_result = NothingReturned

\* map_account_participation is not running
ParticipationIdle ==
    /\ general_ledger_accounts_ids = {}
    /\ general_ledger_transactions_json_data = BadText
    /\ m_pc = "done"
    /\ m_pending = {}
    /\ m_queried = <<>>
    /\ transactions_per_account = <<>>
    /\ all_transactions = <<>>
    /\ m_err = ""
    /\ m_result = NothingReturned

\* a faulty iteration, which logs a failed query and goes on with the next
\* account
ProcessAccountSkipFailed(account_id) ==
    /\ m_pc = "loop"
    /\ account_id \in m_pending
    /\ m_pending' = m_pending \ {account_id}
    /\ LET got == GetTransactionsOfAccount(general_ledger_transactions_json_data,
                                           account_id)
       IN  /\ m_queried' = Append(m_queried,
                                  [account_id |-> account_id, err |-> got.err])
           /\ all_transactions' = all_transactions \o got.value
           /\ transactions_per_account' =
                 transactions_per_account
                     \o [n \in DOMAIN got.value |->
                            AccountTransaction(account_id, got.value[n].id)]
    /\ UNCHANGED <<general_ledger_accounts_ids,
                   general_ledger_transactions_json_data, m_pc, m_err, m_result>>
    /\ UNCHANGED others_of_participation

\* a faulty iteration, which keeps a transaction in all_transactions once
ProcessAccountUnique(account_id) ==
    /\ m_pc = "loop"
    /\ account_id \in m_pending
    /\ m_pending' = m_pending \ {account_id}
    /\ LET got == GetTransactionsOfAccount(general_ledger_transactions_json_data,
                                           account_id)
       IN  /\ m_queried' = Append(m_queried,
                                  [account_id |-> account_id, err |-> got.err])
           /\ IF got.err = ""
              THEN /\ all_transactions' =
                         all_transactions
                             \o SelectSeq(got.value,
                                    LAMBDA t : \A n \in DOMAIN all_transactions :
                                                   all_transactions[n].id # t.id)
                   /\ transactions_per_account' =
                         transactions_per_account
                             \o [n \in DOMAIN got.value |->
                                    AccountTransaction(account_id, got.value[n].id)]
                   /\ UNCHANGED <<m_pc, m_err>>
              ELSE /\ m_err' = got.err
                   /\ m_pc' = "done"
                   /\ UNCHANGED <<transactions_per_account, all_transactions>>
    /\ UNCHANGED <<general_ledger_accounts_ids,
                   general_ledger_transactions_json_data, m_result>>
    /\ UNCHANGED others_of_participation

\* an iteration of `for account_id in general_ledger_accounts_ids` (a set: the
\* order is the set's own, any of the ids not reached yet may be the next):
\* the query, then all_transactions.extend and one row per transaction; an
\* exception of the query is logged and raised again
ProcessAccount(account_id) ==
    /\ m_pc = "loop"
    /\ account_id \in m_pending
    /\ m_pending' = m_pending \ {account_id}
    /\ LET got == GetTransactionsOfAccount(general_ledger_transactions_json_data,
                                           account_id)
       IN  /\ m_queried' = Append(m_queried,
                                  [account_id |-> account_id, err |-> got.err])
           /\ IF got.err = ""
              THEN /\ all_transactions' = all_transactions \o got.value
                   /\ transactions_per_account' =
                         transactions_per_account
                             \o [n \in DOMAIN got.value |->
                                    AccountTransaction(account_id, got.value[n].id)]
                   /\ UNCHANGED <<m_pc, m_err>>
              ELSE /\ m_err' = got.err
                   /\ m_pc' = "done"
                   /\ UNCHANGED <<transactions_per_account, all_transactions>>
    /\ UNCHANGED <<general_ledger_accounts_ids,
                   general_ledger_transactions_json_data, m_result>>
    /\ UNCHANGED others_of_participation

\* return transactions_per_account, all_transactions
MapParticipationReturn ==
    /\ m_pc = "loop"
    /\ m_pending = {}
    /\ m_result' = [returned |-> TRUE, rows |-> transactions_per_account,
                    transactions |-> all_transactions]
    /\ m_pc' = "done"
    /\ UNCHANGED <<general_ledger_accounts_ids,
                   general_ledger_transactions_json_data, m_pending, m_queried,
                   transactions_per_account, all_transactions, m_err>>
    /\ UNCHANGED others_of_participation

ParticipationNext ==
    \/ \E account_id \in ParticipationAccountIds : ProcessAccount(account_id)
    \/ MapParticipationReturn

-----------------------------------------------------------------------------
(* The load stage of a run: the `with get_snowflake_connection()` block of *)
(* main and the functions of load_into_snowflake.                          *)
(*                                                                         *)
(* A table is the sequence of its rows (a row may be there more than       *)
(* once), a row a record of its columns.  The connection is opened with    *)
(* autocommit off: its statements change db, the tables as the connection  *)
(* sees them, and leaving the with block without an exception commits      *)
(* them; an exception leaves the block without a commit.                   *)

\* a faulty order of the three loads
LoadOrderTransactionsFirst == <<"transaction", "account", "account_transactions">>

\* the entities, in the order main loads them; the entity's name is the name
\* of its staging table and of its target table
LoadOrder == <<"account", "transaction", "account_transactions">>

Entities == Range(LoadOrder)

\* id_matching_columns of the entity's merge: the default ["id"], and
\* ["account_id", "transaction_id"] for account_transactions
IdMatchingColumns(entity) ==
    IF entity = "account_transactions" THEN {"account_id", "transaction_id"}
    ELSE {"id"}

\* a connection that commits every statement by itself
AutoCommitOn == TRUE

\* the autocommit argument of snowflake.connector.connect
AutoCommit == FALSE

\* json.dumps of a dict or list value
JsonDumps(value) == [json |-> value]

\* the fields whose value is a dict or a list: the nested models and the
\* journal lines of a transformed transaction
StructuredFields == {"lines", "unit_agreement"}

\* a faulty preprocess_row, which leaves the run_id column out
PreprocessRowWithoutRun(row, run, now) ==
    [c \in (DOMAIN row) \cup {"inserted_at"} |->
        IF c = "inserted_at" THEN now
        ELSE IF c \in StructuredFields THEN JsonDumps(row[c])
        ELSE row[c]]

\* preprocess_row: run_id and inserted_at are added to the row, and a dict or
\* list value becomes its JSON text
preprocess_row(row, run, now) ==
    [c \in (DOMAIN row) \cup {"run_id", "inserted_at"} |->
        IF c = "run_id" THEN run
        ELSE IF c = "inserted_at" THEN now
        ELSE IF c \in StructuredFields THEN JsonDumps(row[c])
        ELSE row[c]]

\* the rows export_data_to_csv writes for the records: one per record, in
\* order, each with the time of its own datetime.now()
ExportedRows(data, run, now) ==
    [n \in DOMAIN data |-> preprocess_row(data[n], run, now + n)]

\* a faulty match condition, which joins the equality clauses with OR
KeysMatchAny(target_row, source_row, id_matching_columns) ==
    \E c \in id_matching_columns : target_row[c] = source_row[c]

\* the ON condition of the merge: " AND ".join of target.c = source.c
KeysMatch(target_row, source_row, id_matching_columns) ==
    \A c \in id_matching_columns : target_row[c] = source_row[c]

\* a faulty merge, which also has WHEN MATCHED THEN UPDATE: a target row that
\* a source row matches takes the values of the first such row
MergeIntoUpdating(target_rows, staging_rows, columns, run, id_matching_columns) ==
    LET source == SelectSeq(staging_rows, LAMBDA r : r.run_id = run)
        Hits(t) == {n \in DOMAIN source : KeysMatch(t, source[n], id_matching_columns)}
        First(S) == CHOOSE n \in S : \A k \in S : n <= k
        not_matched ==
            SelectSeq(source,
                LAMBDA r : \A n \in DOMAIN target_rows :
                               ~KeysMatch(target_rows[n], r, id_matching_columns))
    IN  [n \in DOMAIN target_rows |->
            IF Hits(target_rows[n]) = {} THEN target_rows[n]
            ELSE [c \in columns |-> source[First(Hits(target_rows[n]))][c]]]
            \o [n \in DOMAIN not_matched |-> [c \in columns |-> not_matched[n][c]]]

\* a faulty merge, whose source is the whole staging table
MergeIntoAnyRun(target_rows, staging_rows, columns, run, id_matching_columns) ==
    LET not_matched ==
            SelectSeq(staging_rows,
                LAMBDA r : \A n \in DOMAIN target_rows :
                               ~KeysMatch(target_rows[n], r, id_matching_columns))
    IN  target_rows
            \o [n \in DOMAIN not_matched |-> [c \in columns |-> not_matched[n][c]]]

\* a faulty merge, whose ON condition holds for no pair of rows
MergeIntoUnmatched(target_rows, staging_rows, columns, run, id_matching_columns) ==
    LET source == SelectSeq(staging_rows, LAMBDA r : r.run_id = run)
    IN  target_rows \o [n \in DOMAIN source |-> [c \in columns |-> source[n][c]]]

\* the target table after
\*   MERGE INTO target USING (SELECT * FROM staging WHERE run_id = %s) AS source
\*   ON <match> WHEN NOT MATCHED THEN INSERT (columns) VALUES (columns)
\* every source row that no target row matches is inserted, with the listed
\* columns; nothing else changes
MergeInto(target_rows, staging_rows, columns, run, id_matching_columns) ==
    LET source == SelectSeq(staging_rows, LAMBDA r : r.run_id = run)
        not_matched ==
            SelectSeq(source,
                LAMBDA r : \A n \in DOMAIN target_rows :
                               ~KeysMatch(target_rows[n], r, id_matching_columns))
    IN  target_rows
            \o [n \in DOMAIN not_matched |-> [c \in columns |-> not_matched[n][c]]]

\* the records of the inputs, per entity: two accounts with one id, two
\* transactions with one id, rows that share an account or a transaction
AccountRecords ==
    << [id |-> 1, name |-> "Cash"],
       [id |-> 2, name |-> "Rent"],
       [id |-> 1, name |-> "Cash copy"] >>

TransactionRecords ==
    << [id |-> 1, memo |-> "Renewal", lines |-> <<10, 20>>,
        unit_agreement |-> [id |-> 7, type |-> "Lease"]],
       [id |-> 2, memo |-> "Rent", lines |-> <<>>,
        unit_agreement |-> [id |-> 8, type |-> "Lease"]],
       [id |-> 1, memo |-> "Renewal again", lines |-> <<30>>,
        unit_agreement |-> [id |-> 7, type |-> "Lease"]] >>

ParticipationRecords ==
    << [account_id |-> 1, transaction_id |-> 2],
       [account_id |-> 2, transaction_id |-> 1],
       [account_id |-> 1, transaction_id |-> 1] >>

\* the runs of at most n consecutive records of a list, the empty one included
Windows(s, n) ==
    {SubSeq(s, i, j) : i \in 1..Len(s), j \in 0..Len(s)} \cap SeqUpTo(Range(s), n)

\* a row an earlier run has merged into the entity's target table
OldRow(entity) ==
    CASE entity = "account" -> [id |-> 1, name |-> "Cash before"]
      [] entity = "transaction" ->
             [id |-> 1, memo |-> "Renewal before", lines |-> JsonDumps(<<5>>),
              unit_agreement |-> JsonDumps([id |-> 7, type |-> "Lease"])]
      [] entity = "account_transactions" -> [account_id |-> 1, transaction_id |-> 1]

\* a row another run has left in the entity's staging table
LeftOverRow(entity) ==
    CASE entity = "account" ->
             [id |-> 9, name |-> "Escrow", run_id |-> "run-1", inserted_at |-> 0]
      [] entity = "transaction" ->
             [id |-> 9, memo |-> "Deposit", lines |-> JsonDumps(<<>>),
              unit_agreement |-> JsonDumps([id |-> 9, type |-> "Lease"]),
              run_id |-> "run-1", inserted_at |-> 0]
      [] entity = "account_transactions" ->
             [account_id |-> 9, transaction_id |-> 9,
              run_id |-> "run-1", inserted_at |-> 0]

NoTables == [e \in Entities |-> <<>>]

NoFiles == [e \in Entities |-> [exists |-> FALSE, rows |-> <<>>]]

LoadInit ==
    /\ run_id = "run-2"
    /\ \E a \in Windows(AccountRecords, MaxRows),
          t \in Windows(TransactionRecords, MaxRows),
          p \in Windows(ParticipationRecords, MaxRows) :
          load_data = [account |-> a, transaction |-> t, account_transactions |-> p]
    /\ csv_files = NoFiles
    /\ \E left \in BOOLEAN, old \in [Entities -> BOOLEAN] :
          db = [staging |-> [e \in Entities |->
                                IF left THEN <<LeftOverRow(e)>> ELSE <<>>],
                target |-> [e \in Entities |->
                                IF old[e] THEN <<OldRow(e)>> ELSE <<>>]]
    /\ committed = db
    /\ before = db
    /\ l_pc = "connect"
    /\ l_entity = 1
    /\ l_steps = <<>>
    /\ l_err = ""
    /\ l_committed = FALSE
    /\ clock = 1

\* no run is at its load stage
LoadIdle ==
    /\ run_id = ""
    /\ load_data = NoTables
    /\ csv_files = NoFiles
    /\ db = [staging |-> NoTables, target |-> NoTables]
    /\ committed = db
    /\ before = db
    /\ l_pc = "done"
    /\ l_entity = 1
    /\ l_steps = <<>>
    /\ l_err = ""
    /\ l_committed = FALSE
    /\ clock = 1

\* a faulty handler, which logs the exception and lets the run go on with
\* the next step
LoadRaiseSwallowed(cls) ==
    /\ l_err' = cls
    /\ l_pc' = CASE l_pc = "connect" -> "export"
                [] l_pc = "export" -> "stage"
                [] l_pc = "stage" -> "merge"
                [] OTHER -> "commit"
    /\ UNCHANGED <<db, committed, l_entity, l_committed>>

\* an exception leaves the with block: the connection is closed without a
\* commit, and what its statements did since the last commit is undone
LoadRaise(cls) ==
    /\ l_err' = cls
    /\ l_pc' = "done"
    /\ db' = committed
    /\ UNCHANGED <<committed, l_entity, l_committed>>

\* a step of the entity's load function begins
Begin(entity, step) ==
    /\ l_pc = step
    /\ LoadOrder[l_entity] = entity
    /\ l_steps' = Append(l_steps, <<entity, step>>)

\* get_snowflake_connection returns the connection
Connect ==
    /\ l_pc = "connect"
    /\ l_pc' = "export"
    /\ l_entity' = 1
    /\ UNCHANGED <<run_id, load_data, csv_files, db, committed, before, l_steps,
                   l_err, l_committed, clock>>
    /\ UNCHANGED others_of_load

\* snowflake.connector.connect raises
ConnectFails ==
    /\ l_pc = "connect"
    /\ LoadRaise("DatabaseError")
    /\ UNCHANGED <<run_id, load_data, csv_files, before, l_steps, clock>>
    /\ UNCHANGED others_of_load

\* a faulty export, which writes a file without rows for an empty list and
\* returns
ExportAllowingEmpty(entity) ==
    /\ Begin(entity, "export")
    /\ csv_files' =
          [csv_files EXCEPT ![entity] =
              [exists |-> TRUE,
               rows |-> ExportedRows(load_data[entity], run_id, clock)]]
    /\ clock' = clock + Len(load_data[entity])
    /\ l_pc' = "stage"
    /\ UNCHANGED <<db, committed, l_entity, l_err, l_committed>>
    /\ UNCHANGED <<run_id, load_data, before>>
    /\ UNCHANGED others_of_load

\* export_data_to_csv: the file is opened for writing, the header is made of
\* the fields of data[0] (an IndexError on an empty list, which leaves the
\* file empty), then one row per record is written
Export(entity) ==
    /\ Begin(entity, "export")
    /\ IF load_data[entity] = <<>>
       THEN /\ csv_files' = [csv_files EXCEPT ![entity] = [exists |-> TRUE, rows |-> <<>>]]
            /\ LoadRaise("IndexError")
            /\ UNCHANGED clock
       ELSE /\ csv_files' =
                  [csv_files EXCEPT ![entity] =
                      [exists |-> TRUE,
                       rows |-> ExportedRows(load_data[entity], run_id, clock)]]
            /\ clock' = clock + Len(load_data[entity])
            /\ l_pc' = "stage"
            /\ UNCHANGED <<db, committed, l_entity, l_err, l_committed>>
    /\ UNCHANGED <<run_id, load_data, before>>
    /\ UNCHANGED others_of_load

\* export_data_to_csv: open raises
ExportFails(entity) ==
    /\ Begin(entity, "export")
    /\ LoadRaise("OSError")
    /\ UNCHANGED <<run_id, load_data, csv_files, before, clock>>
    /\ UNCHANGED others_of_load

\* stage_file_in_snowflake: USE SCHEMA, PUT and COPY INTO, which appends the
\* rows of the file to the entity's staging table
Stage(entity) ==
    /\ Begin(entity, "stage")
    /\ csv_files[entity].exists
    /\ db' = [db EXCEPT !.staging[entity] = @ \o csv_files[entity].rows]
    /\ committed' = IF AutoCommit THEN db' ELSE committed
    /\ l_pc' = "merge"
    /\ UNCHANGED <<run_id, load_data, csv_files, before, l_entity, l_err,
                   l_committed, clock>>
    /\ UNCHANGED others_of_load

\* stage_file_in_snowflake: a statement raises
StageFails(entity) ==
    /\ Begin(entity, "stage")
    /\ LoadRaise("ProgrammingError")
    /\ UNCHANGED <<run_id, load_data, csv_files, before, clock>>
    /\ UNCHANGED others_of_load

\* merge_staging_table_into_target_table, with the fields of the first record
\* as columns; then main goes on to the next load, or to the end of the block
Merge(entity) ==
    /\ Begin(entity, "merge")
    /\ db' = [db EXCEPT !.target[entity] =
                 MergeInto(@, db.staging[entity], DOMAIN load_data[entity][1],
                           run_id, IdMatchingColumns(entity))]
    /\ committed' = IF AutoCommit THEN db' ELSE committed
    /\ IF l_entity < Len(LoadOrder)
       THEN /\ l_entity' = l_entity + 1
            /\ l_pc' = "export"
       ELSE /\ l_pc' = "commit"
            /\ UNCHANGED l_entity
    /\ UNCHANGED <<run_id, load_data, csv_files, before, l_err, l_committed, clock>>
    /\ UNCHANGED others_of_load

\* merge_staging_table_into_target_table: the statement raises
MergeFails(entity) ==
    /\ Begin(entity, "merge")
    /\ LoadRaise("ProgrammingError")
    /\ UNCHANGED <<run_id, load_data, csv_files, before, clock>>
    /\ UNCHANGED others_of_load

\* the with block is left without an exception: the connection commits
Commit ==
    /\ l_pc = "commit"
    /\ committed' = db
    /\ l_committed' = TRUE
    /\ l_pc' = "done"
    /\ UNCHANGED <<run_id, load_data, csv_files, db, before, l_entity, l_steps,
                   l_err, clock>>
    /\ UNCHANGED others_of_load

\* the records of an entity
EntityRecords(entity) ==
    CASE entity = "account" -> AccountRecords
      [] entity = "transaction" -> TransactionRecords
      [] entity = "account_transactions" -> ParticipationRecords

\* the tokens of the runs
RunTokens == <<"run-1", "run-2", "run-3", "run-4">>

\* the rows an entity's staging table may hold: exported records of the run
\* "run-1" and of the run "run-2"
StagingRowPool(entity) ==
    {preprocess_row(EntityRecords(entity)[n], RunTokens[k], k) :
        n \in DOMAIN EntityRecords(entity), k \in 1..2}

\* merge_staging_table_into_target_table is called on its own, for one
\* entity, with a run token and any rows in the staging table
MergeCallsInit ==
    /\ run_id \in {RunTokens[1], RunTokens[2]}
    /\ load_data = NoTables
    /\ csv_files = NoFiles
    /\ l_entity \in DOMAIN LoadOrder
    /\ \E staging_rows \in SeqUpTo(StagingRowPool(LoadOrder[l_entity]), MaxRows),
          old \in BOOLEAN :
          db = [staging |-> [NoTables EXCEPT ![LoadOrder[l_entity]] = staging_rows],
                target |-> [NoTables EXCEPT ![LoadOrder[l_entity]] =
                               IF old THEN <<OldRow(LoadOrder[l_entity])>> ELSE <<>>]]
    /\ committed = db
    /\ before = db
    /\ l_pc = "merge"
    /\ l_steps = <<>>
    /\ l_err = ""
    /\ l_committed = FALSE
    /\ clock = 1

\* a call of merge_staging_table_into_target_table with the entity's tables,
\* the entity's fields as columns and the run token
MergeCall ==
    /\ l_pc = "merge"
    /\ Len(l_steps) < MaxMerges
    /\ LET entity == LoadOrder[l_entity] IN
          /\ db' = [db EXCEPT !.target[entity] =
                       MergeInto(@, db.staging[entity],
                                 DOMAIN EntityRecords(entity)[1], run_id,
                                 IdMatchingColumns(entity))]
          /\ l_steps' = Append(l_steps, <<entity, "merge">>)
    /\ UNCHANGED <<run_id, load_data, csv_files, committed, before, l_pc,
                   l_entity, l_err, l_committed, clock>>
    /\ UNCHANGED others_of_load

\* the merge statement raises: the tables stay as they are
MergeCallFails ==
    /\ l_pc = "merge"
    /\ Len(l_steps) < MaxMerges
    /\ l_err' = "ProgrammingError"
    /\ l_pc' = "done"
    /\ UNCHANGED <<run_id, load_data, csv_files, db, committed, before,
                   l_entity, l_steps, l_committed, clock>>
    /\ UNCHANGED others_of_load

MergeCallsNext ==
    \/ MergeCall
    \/ MergeCallFails

LoadNext ==
    \/ Connect
    \/ ConnectFails
    \/ \E entity \in Entities : Export(entity)
    \/ \E entity \in Entities : ExportFails(entity)
    \/ \E entity \in Entities : Stage(entity)
    \/ \E entity \in Entities : StageFails(entity)
    \/ \E entity \in Entities : Merge(entity)
    \/ \E entity \in Entities : MergeFails(entity)
    \/ Commit

-----------------------------------------------------------------------------
(* main: the runs of the pipeline, one after the other.  A run reads the   *)
(* accounts file, flattens the accounts, reads the transactions file, maps *)
(* the accounts to their transactions, transforms the transactions and     *)
(* loads the three lists; an exception at any stage ends the run.          *)

\* runs of the pipeline
MaxRuns == 2

\* the raw account and the raw transaction of an id
RawAccountOf(id) == CHOOSE raw \in RawAccountPool : raw.Id = id
RawTransactionOf(id) == CHOOSE raw \in RawTransactionPool : raw.Id = id

\* the contents data/general_ledger_accounts.json can have: an account with
\* its sub-account 2 and the account 2 itself, the account 2 alone, an
\* account whose SubAccounts is null, an account without a required key, a
\* text that is not JSON
PipelineAccountTexts ==
    {JsonText(<<RawAccountOf(1), RawAccountOf(2)>>),
     JsonText(<<RawAccountOf(2)>>),
     JsonText(<<RawAccountOf(3)>>),
     JsonText(<<RawAccountOf(4)>>),
     BadText}

\* the contents data/general_ledger_transactions.json can have: transactions
\* of the accounts, one of them of two accounts, a transaction without a
\* required key, one whose line has no GLAccount, one with a GLAccount
\* without Id, a text that is not JSON
PipelineTransactionTexts ==
    {JsonText(<<RawTransactionOf(1), RawTransactionOf(8)>>),
     JsonText(<<RawTransactionOf(2), RawTransactionOf(1)>>),
     JsonText(<<RawTransactionOf(8), RawTransactionOf(8)>>),
     JsonText(<<RawTransactionOf(3)>>),
     JsonText(<<RawTransactionOf(6)>>),
     JsonText(<<RawTransactionOf(9)>>),
     BadText}

\* no run has begun
MainIdle ==
    /\ p_pc = "off"
    /\ p_runs = 0

\* the run is over: its load stage has ended, or a stage before it has raised
RunEnded ==
    \/ p_pc = "extract" /\ pc = "done" /\ err # ""
    \/ p_pc = "flatten" /\ a_pc = "done" /\ a_err # ""
    \/ p_pc = "map" /\ m_pc = "done" /\ m_err # ""
    \/ p_pc = "load" /\ l_pc = "done"

\* {account.id for account in flattened_general_ledger_accounts}
AccountIdsOf(flattened) == {flattened[n].id : n \in DOMAIN flattened}

\* a run begins: the process starts, with the tables as they are committed in
\* the warehouse and the files of the runs before it, and reads the accounts
\* file; get_general_ledger_accounts is called with its text
StartRun(text) ==
    /\ p_pc = "off" \/ RunEnded
    /\ p_runs < MaxRuns
    /\ p_runs' = p_runs + 1
    /\ p_pc' = "extract"
    /\ call' = "get_general_ledger_accounts"
    /\ json_data' = text
    /\ pc' = "start"
    /\ general_account_id' = NoneInt
    /\ start_date' = NoneStr
    /\ end_date' = NoneStr
    /\ response_text' = NoText
    /\ delay' = 0
    /\ current_retries' = 0
    /\ statuses' = <<>>
    /\ sleeps' = <<>>
    /\ json_text' = NoText
    /\ filtered' = FALSE
    /\ err' = ""
    /\ err_msg' = ""
    /\ text_result' = NoText
    /\ result' = <<>>
    /\ transactions' = <<>>
    /\ t_pc' = "done"
    /\ t_index' = 0
    /\ stored_ids' = {}
    /\ duplicates_found' = 0
    /\ t_result' = <<>>
    /\ accounts' = <<>>
    /\ a_pc' = "done"
    /\ a_index' = 0
    /\ s_index' = 0
    /\ sub_account_count' = 0
    /\ transformed' = <<>>
    /\ a_err' = ""
    /\ general_ledger_accounts_ids' = {}
    /\ general_ledger_transactions_json_data' = BadText
    /\ m_pc' = "done"
    /\ m_pending' = {}
    /\ m_queried' = <<>>
    /\ transactions_per_account' = <<>>
    /\ all_transactions' = <<>>
    /\ m_err' = ""
    /\ m_result' = NothingReturned
    /\ run_id' = ""
    /\ load_data' = NoTables
    /\ db' = committed
    /\ before' = committed
    /\ l_pc' = "done"
    /\ l_entity' = 1
    /\ l_steps' = <<>>
    /\ l_err' = ""
    /\ l_committed' = FALSE
    /\ UNCHANGED <<csv_files, committed, clock>>

\* transform_general_ledger_accounts is called with the accounts extracted
StartFlatten ==
    /\ p_pc = "extract"
    /\ pc = "done"
    /\ err = ""
    /\ p_pc' = "flatten"
    /\ accounts' = result
    /\ a_pc' = "loop"
    /\ UNCHANGED <<a_index, s_index, sub_account_count, transformed, a_err>>
    /\ UNCHANGED <<extract_vars, transactions_vars, participation_vars, load_vars,
                   p_runs>>

\* the ids of the flattened accounts are collected, the transactions file is
\* read and map_account_participation is called
StartMap(text) ==
    /\ p_pc = "flatten"
    /\ a_pc = "done"
    /\ a_err = ""
    /\ p_pc' = "map"
    /\ general_ledger_accounts_ids' = AccountIdsOf(transformed)
    /\ general_ledger_transactions_json_data' = text
    /\ m_pending' = AccountIdsOf(transformed)
    /\ m_pc' = "loop"
    /\ UNCHANGED <<m_queried, transactions_per_account, all_transactions, m_err,
                   m_result>>
    /\ UNCHANGED <<extract_vars, transactions_vars, accounts_vars, load_vars,
                   p_runs>>

\* a faulty call, which hands every transaction of the file to
\* transform_general_ledger_transactions
StartTransformWholeFile ==
    /\ p_pc = "map"
    /\ m_pc = "done"
    /\ m_result.returned
    /\ p_pc' = "transform"
    /\ transactions' =
          GeneralLedgerTransactions(general_ledger_transactions_json_data).value
    /\ t_pc' = "loop"
    /\ UNCHANGED <<t_index, stored_ids, duplicates_found, t_result>>
    /\ UNCHANGED <<extract_vars, accounts_vars, participation_vars, load_vars,
                   p_runs>>

\* transform_general_ledger_transactions is called with all_transactions
StartTransform ==
    /\ p_pc = "map"
    /\ m_pc = "done"
    /\ m_result.returned
    /\ p_pc' = "transform"
    /\ transactions' = m_result.transactions
    /\ t_pc' = "loop"
    /\ UNCHANGED <<t_index, stored_ids, duplicates_found, t_result>>
    /\ UNCHANGED <<extract_vars, accounts_vars, participation_vars, load_vars,
                   p_runs>>

\* the load stage begins: the flattened accounts, the transformed
\* transactions and the participation rows are what the load functions get,
\* with the token of the run
StartLoad ==
    /\ p_pc = "transform"
    /\ t_pc = "done"
    /\ p_pc' = "load"
    /\ run_id' = RunTokens[p_runs]
    /\ load_data' = [account |-> transformed,
                     transaction |-> t_result,
                     account_transactions |-> m_result.rows]
    /\ l_pc' = "connect"
    /\ UNCHANGED <<csv_files, db, committed, before, l_entity, l_steps, l_err,
                   l_committed, clock>>
    /\ UNCHANGED <<extract_vars, transactions_vars, accounts_vars,
                   participation_vars, p_runs>>

PipelineNext ==
    \/ \E text \in PipelineAccountTexts : StartRun(text)
    \/ GetAccountsFromJson
    \/ ValidateAccounts
    \/ StartFlatten
    \/ AppendAccount
    \/ IterateNone
    \/ AppendSubAccount
    \/ SubAccountsDone
    \/ TransformAccountsReturn
    \/ \E text \in PipelineTransactionTexts : StartMap(text)
    \/ \E account_id \in ParticipationAccountIds : ProcessAccount(account_id)
    \/ MapParticipationReturn
    \/ StartTransform
    \/ SkipDuplicate
    \/ TransformTransaction
    \/ TransformTransactionsReturn
    \/ StartLoad
    \/ Connect
    \/ ConnectFails
    \/ \E entity \in Entities : Export(entity)
    \/ \E entity \in Entities : ExportFails(entity)
    \/ \E entity \in Entities : Stage(entity)
    \/ \E entity \in Entities : StageFails(entity)
    \/ \E entity \in Entities : Merge(entity)
    \/ \E entity \in Entities : MergeFails(entity)
    \/ Commit

-----------------------------------------------------------------------------
(* The specifications: one call of an extract function, one call of        *)
(* transform_general_ledger_transactions, one call of                      *)
(* transform_general_ledger_accounts, one call of                          *)
(* map_account_participation, the load stage of one run.                   *)

InitExtract ==
    ExtractInit /\ TransactionsIdle /\ AccountsIdle /\ ParticipationIdle /\ LoadIdle
        /\ MainIdle

SpecExtract == InitExtract /\ [][ExtractNext]_vars

InitTransactions ==
    ExtractIdle /\ TransactionsInit /\ AccountsIdle /\ ParticipationIdle /\ LoadIdle
        /\ MainIdle

SpecTransactions == InitTransactions /\ [][TransactionsNext]_vars

InitAccounts ==
    ExtractIdle /\ TransactionsIdle /\ AccountsInit /\ ParticipationIdle /\ LoadIdle
        /\ MainIdle

SpecAccounts == InitAccounts /\ [][AccountsNext]_vars

InitParticipation ==
    ExtractIdle /\ TransactionsIdle /\ AccountsIdle /\ ParticipationInit /\ LoadIdle
        /\ MainIdle

SpecParticipation == InitParticipation /\ [][ParticipationNext]_vars

InitLoad ==
    ExtractIdle /\ TransactionsIdle /\ AccountsIdle /\ ParticipationIdle /\ LoadInit
        /\ MainIdle

SpecLoad == InitLoad /\ [][LoadNext]_vars

InitMerge ==
    ExtractIdle /\ TransactionsIdle /\ AccountsIdle /\ ParticipationIdle
        /\ MergeCallsInit /\ MainIdle

SpecMerge == InitMerge /\ [][MergeCallsNext]_vars

\* the runs of the pipeline, from empty tables
InitPipeline ==
    ExtractIdle /\ TransactionsIdle /\ AccountsIdle /\ ParticipationIdle /\ LoadIdle
        /\ MainIdle

SpecPipeline == InitPipeline /\ [][PipelineNext]_vars

-----------------------------------------------------------------------------
(* Properties of fetch_transactions_from_api, checked under SpecExtract. *)

\* the calls that run fetch_transactions_from_api
FetchCalls == {"get_general_ledger_transactions", "fetch_transactions_from_api"}

\* every response received so far was a 429
AllRateLimited == \A i \in DOMAIN statuses : statuses[i] = 429

RECURSIVE Pow2(_)
Pow2(n) == IF n = 0 THEN 1 ELSE 2 * Pow2(n - 1)

\* C1: when every response is a 429, the fetch sleeps once after each of them,
\* never makes a sixth request, and when it ends it has made exactly 5 requests
\* and 5 sleeps and raises Exception("Max retries exceeded ...").
C1_AllRateLimitedExhausts ==
    (call \in FetchCalls /\ AllRateLimited) =>
        /\ Len(statuses) <= 5
        /\ Len(sleeps) = Len(statuses)
        /\ (pc = "done" /\ statuses # <<>>) =>
              /\ Len(statuses) = 5
              /\ Len(sleeps) = 5
              /\ err = "Exception"
              /\ err_msg = "Max retries exceeded while fetching transactions from API"

\* a fetch that ended after five 429 responses
C1_Witness ==
    /\ call = "fetch_transactions_from_api"
    /\ pc = "done"
    /\ statuses = <<429, 429, 429, 429, 429>>
    /\ Len(sleeps) = 5
    /\ err = "Exception"

\* C2: when the last response received is a success, it follows k < 5 responses
\* that were all 429, the fetch has slept exactly k times, and it returned the
\* body of that response unmodified.
C2_SuccessAfterRateLimits ==
    (call \in FetchCalls /\ statuses # <<>> /\ statuses[Len(statuses)] = 200) =>
        LET k == Len(statuses) - 1 IN
            /\ k < 5
            /\ \A i \in 1..k : statuses[i] = 429
            /\ Len(sleeps) = k
            /\ text_result = response_text
            /\ ~text_result.is_none
            /\ call = "fetch_transactions_from_api" => (pc = "done" /\ err = "")
            /\ call = "get_general_ledger_transactions" =>
                  (pc \in {"validate", "done"} /\ json_text = response_text)

\* a fetch that returned a body with transactions after one 429
C2_Witness ==
    /\ call = "fetch_transactions_from_api"
    /\ pc = "done"
    /\ statuses = <<429, 200>>
    /\ Len(sleeps) = 1
    /\ Len(text_result.items) = 2
    /\ err = ""

\* C3: the i-th sleep of a fetch lasts 2 * 2^(i-1) seconds (2, 4, 8, 16, 32),
\* there are at most 5 of them, and between requests the delay is the double of
\* the last sleep (the base before any sleep): it is never reset or decreased.
C3_BackoffDoubles ==
    call \in FetchCalls =>
        /\ Len(sleeps) <= 5
        /\ \A i \in DOMAIN sleeps : sleeps[i] = 2 * Pow2(i - 1)
        /\ pc = "request" => delay = 2 * Pow2(Len(sleeps))

\* a fetch that slept five times
C3_Witness ==
    /\ call \in FetchCalls
    /\ sleeps = <<2, 4, 8, 16, 32>>

\* C4: a response with an error status other than 429 is the last response of
\* the fetch: the fetch has ended with HTTPError (a requests.RequestException),
\* returns nothing, and slept only after the 429 responses that preceded it.
C4_ErrorStatusFailsAtOnce ==
    call \in FetchCalls =>
        \A i \in DOMAIN statuses :
            statuses[i] \in {404, 500} =>
                /\ i = Len(statuses)
                /\ pc = "done"
                /\ err = "HTTPError"
                /\ Len(sleeps) = i - 1
                /\ text_result.is_none
                /\ result = <<>>

\* a fetch that failed on a 500 after two 429 responses
C4_Witness ==
    /\ call = "get_general_ledger_transactions"
    /\ statuses = <<429, 429, 500>>
    /\ err = "HTTPError"
    /\ pc = "done"

-----------------------------------------------------------------------------
(* Properties of get_general_ledger_transactions and                       *)
(* get_general_ledger_accounts, checked under SpecExtract.                 *)

\* a required parameter of get_general_ledger_transactions is not provided:
\* the account id, or, without json_data, the start date or the end date
ParameterMissing ==
    \/ general_account_id = NoneInt
    \/ json_data.is_none /\ (start_date = NoneStr \/ end_date = NoneStr)

\* C5: get_general_ledger_transactions ends with ValueError exactly when a
\* required parameter is not provided, and then no request was sent and no
\* payload was filtered.
C5_ValueErrorIffParameterMissing ==
    (call = "get_general_ledger_transactions" /\ pc = "done") =>
        /\ (err = "ValueError") <=> ParameterMissing
        /\ err = "ValueError" => (statuses = <<>> /\ ~filtered)

\* validate_json has run on json_text
Validated ==
    /\ call \in {"get_general_ledger_accounts", "get_general_ledger_transactions"}
    /\ pc = "done"
    /\ ~json_text.is_none

\* the i-th element of the validated collection lacks the shape of its record
Malformed(i) ==
    IF call = "get_general_ledger_accounts"
    THEN ~ValidAccount(json_text.items[i])
    ELSE ~ValidTransaction(json_text.items[i])

\* C6: when the collection an extract function validated holds a malformed
\* element, the call has failed with ValidationError and returns no record.
C6_ValidationAllOrNothing ==
    (Validated /\ \E i \in DOMAIN json_text.items : Malformed(i)) =>
        /\ err = "ValidationError"
        /\ result = <<>>

\* a filtered payload of one well-formed and one malformed transaction was
\* rejected as a whole
C6_Witness ==
    /\ Validated
    /\ call = "get_general_ledger_transactions"
    /\ filtered
    /\ Len(json_text.items) = 2
    /\ \E i, j \in DOMAIN json_text.items : Malformed(i) /\ ~Malformed(j)
    /\ err = "ValidationError"
    /\ result = <<>>

-----------------------------------------------------------------------------
(* Properties of transform_general_ledger_transactions, checked under      *)
(* SpecTransactions.                                                       *)

\* the index of the first input transaction with the id
FirstIndex(id) ==
    CHOOSE k \in DOMAIN transactions :
        /\ transactions[k].id = id
        /\ \A j \in 1..(k - 1) : transactions[j].id # id

\* the number of input transactions with the id
Occurrences(id) == Cardinality({k \in DOMAIN transactions : transactions[k].id = id})

\* C7: the ids of the returned records are pairwise distinct, they are the ids
\* of the input, and they come in the order of their first occurrence in it.
C7_UniqueInFirstSeenOrder ==
    t_pc = "done" =>
        /\ \A i, j \in DOMAIN t_result : i # j => t_result[i].id # t_result[j].id
        /\ {t_result[i].id : i \in DOMAIN t_result}
              = {transactions[k].id : k \in DOMAIN transactions}
        /\ \A i, j \in DOMAIN t_result :
              i < j => FirstIndex(t_result[i].id) < FirstIndex(t_result[j].id)

\* an input of three transactions with a repeated id, returned as two records
\* in an order that is not the order of the ids
C7_Witness ==
    /\ t_pc = "done"
    /\ Len(transactions) = 3
    /\ transactions[1].id = 2
    /\ transactions[2].id = 1
    /\ transactions[3].id = 2
    /\ Len(t_result) = 2
    /\ t_result[1].id = 2

\* C8: the record returned for an id that occurs several times in the input
\* has the header fields, the journal memo and the lines of the first
\* occurrence.
C8_FirstOccurrenceWins ==
    t_pc = "done" =>
        \A i \in DOMAIN t_result :
            Occurrences(t_result[i].id) > 1 =>
                LET first == transactions[FirstIndex(t_result[i].id)] IN
                    /\ t_result[i].date = first.date
                    /\ t_result[i].transaction_type = first.transaction_type
                    /\ t_result[i].journal_memo = first.journal.memo
                    /\ Len(t_result[i].lines) = Len(first.journal.lines)
                    /\ \A n \in DOMAIN t_result[i].lines :
                          /\ t_result[i].lines[n].amount = first.journal.lines[n].amount
                          /\ t_result[i].lines[n].memo = first.journal.lines[n].memo
                          /\ t_result[i].lines[n].general_ledger_account_id
                                = first.journal.lines[n].gl_account.id

\* [T(id=1, memo="orig"), T(id=1, memo="dup"), T(id=2)], whose two first
\* transactions differ in date, type and lines, returned as two records, the
\* first with memo "orig"
C8_Witness ==
    /\ t_pc = "done"
    /\ Len(transactions) = 3
    /\ transactions[1].id = 1 /\ transactions[1].journal.memo = "orig"
    /\ transactions[2].id = 1 /\ transactions[2].journal.memo = "dup"
    /\ transactions[3].id = 2
    /\ transactions[1].journal.lines # transactions[2].journal.lines
    /\ Len(t_result) = 2
    /\ t_result[1].journal_memo = "orig"

\* C9: the lines of every returned record are the journal lines of its source
\* transaction, as many and in the same order; line n has the id of the
\* account of journal line n as general_ledger_account_id, the other fields of
\* that line unchanged, and no other field.
C9_LinesFlattenedInOrder ==
    \A i \in DOMAIN t_result :
        LET source == transactions[FirstIndex(t_result[i].id)] IN
            /\ Len(t_result[i].lines) = Len(source.journal.lines)
            /\ \A n \in DOMAIN t_result[i].lines :
                  /\ t_result[i].lines[n].general_ledger_account_id
                        = source.journal.lines[n].gl_account.id
                  /\ t_result[i].lines[n].amount = source.journal.lines[n].amount
                  /\ t_result[i].lines[n].memo = source.journal.lines[n].memo
                  /\ DOMAIN t_result[i].lines[n]
                        = {"amount", "memo", "general_ledger_account_id"}

\* a record with two lines whose accounts are 2 and 1, in that order, returned
\* with a record without lines
C9_Witness ==
    /\ t_pc = "done"
    /\ \E i, j \in DOMAIN t_result :
          /\ Len(t_result[i].lines) = 2
          /\ t_result[i].lines[1].general_ledger_account_id = 2
          /\ t_result[i].lines[2].general_ledger_account_id = 1
          /\ t_result[j].lines = <<>>

-----------------------------------------------------------------------------
(* Properties of transform_general_ledger_accounts, checked under          *)
(* SpecAccounts.                                                           *)

\* what identifies a record of the output: id, name, parent_gl_account_id
Identity(account) == <<account.id, account.name, account.parent_gl_account_id>>

\* the expected output order: for each account in order, the account, then its
\* direct sub-accounts in order
RECURSIVE AccountThenSubAccounts(_)
AccountThenSubAccounts(list) ==
    IF list = <<>> THEN <<>>
    ELSE <<Identity(Head(list))>>
            \o [n \in DOMAIN Head(list).sub_accounts.items |->
                   Identity(Head(list).sub_accounts.items[n])]
            \o AccountThenSubAccounts(Tail(list))

\* C10: the records emitted so far are the beginning of the sequence "each
\* account, then its direct sub-accounts in their order, then the next
\* account", and the list returned is that whole sequence.
C10_AccountThenSubAccountsInOrder ==
    LET expected == AccountThenSubAccounts(accounts)
        emitted == [n \in DOMAIN transformed |-> Identity(transformed[n])]
    IN  /\ Len(emitted) <= Len(expected)
        /\ emitted = SubSeq(expected, 1, Len(emitted))
        /\ (a_pc = "done" /\ a_err = "") => emitted = expected

\* [A(sub=[B, C]), D] returned as four records
C10_Witness ==
    /\ a_pc = "done"
    /\ a_err = ""
    /\ Len(accounts) = 2
    /\ Len(accounts[1].sub_accounts.items) = 2
    /\ accounts[2].sub_accounts.items = <<>>
    /\ Len(transformed) = 4
    /\ transformed[4].id = accounts[2].id

\* the number of direct sub-accounts of the accounts of a list
RECURSIVE DirectSubAccounts(_)
DirectSubAccounts(list) ==
    IF list = <<>> THEN 0
    ELSE Len(Head(list).sub_accounts.items) + DirectSubAccounts(Tail(list))

\* C11: the list returned has one record per top-level account plus one per
\* direct sub-account: records with a repeated id are all there, and a
\* sub-account of a sub-account gives no record.
C11_OneRecordPerAccountAndDirectSubAccount ==
    (a_pc = "done" /\ a_err = "") =>
        /\ Len(transformed) = Len(accounts) + DirectSubAccounts(accounts)
        /\ sub_account_count = DirectSubAccounts(accounts)

\* two accounts with the same id, the first with a sub-account of that id too
\* which has a sub-account of its own: three records, all with one id
C11_Witness ==
    /\ a_pc = "done"
    /\ a_err = ""
    /\ Len(accounts) = 2
    /\ accounts[1].id = accounts[2].id
    /\ Len(accounts[1].sub_accounts.items) = 1
    /\ accounts[1].sub_accounts.items[1].id = accounts[1].id
    /\ accounts[1].sub_accounts.items[1].sub_accounts.items # <<>>
    /\ accounts[2].sub_accounts.items = <<>>
    /\ Len(transformed) = 3
    /\ \A n \in 1..3 : transformed[n].id = accounts[1].id

\* C12: for one account with an empty sub-account list the call returns one
\* record, which has every field of the account but sub_accounts, each with
\* the account's value.
C12_AccountWithoutSubAccountsIsKept ==
    (/\ a_pc = "done"
     /\ Len(accounts) = 1
     /\ accounts[1].sub_accounts = SomeList(<<>>)) =>
        /\ a_err = ""
        /\ Len(transformed) = 1
        /\ DOMAIN transformed[1] = (DOMAIN accounts[1]) \ {"sub_accounts"}
        /\ \A f \in DOMAIN transformed[1] : transformed[1][f] = accounts[1][f]

\* one account with a parent and no sub-account, returned as one record
C12_Witness ==
    /\ a_pc = "done"
    /\ a_err = ""
    /\ Len(accounts) = 1
    /\ accounts[1].sub_accounts = SomeList(<<>>)
    /\ accounts[1].parent_gl_account_id # NoneInt
    /\ Len(transformed) = 1
    /\ transformed[1].parent_gl_account_id = accounts[1].parent_gl_account_id

-----------------------------------------------------------------------------
(* Properties of map_account_participation, checked under                  *)
(* SpecParticipation.                                                      *)

\* the ids of the transactions of a payload that have a journal line of the
\* account, in the payload's order
MatchingIds(json, account_id) ==
    LET found == transactions_json_search(json.items, account_id).items
    IN  [n \in DOMAIN found |-> found[n].Id]

\* the transaction ids of the rows of an account, in the rows' order
TransactionIdsOf(rows, account_id) ==
    LET own == SelectSeq(rows, LAMBDA r : r.account_id = account_id)
    IN  [n \in DOMAIN own |-> own[n].transaction_id]

\* C13: the rows returned are, for every account id given, one row per
\* transaction of the payload that matches it, and no other row; and the query
\* of an account that no transaction of the payload matches raises nothing.
C13_OneRowPerAccountAndMatch ==
    LET json == general_ledger_transactions_json_data IN
    /\ m_result.returned =>
          /\ \A n \in DOMAIN m_result.rows :
                m_result.rows[n].account_id \in general_ledger_accounts_ids
          /\ \A a \in general_ledger_accounts_ids :
                TransactionIdsOf(m_result.rows, a) = MatchingIds(json, a)
    /\ \A n \in DOMAIN m_queried :
          (json.parses /\ MatchingIds(json, m_queried[n].account_id) = <<>>)
              => m_queried[n].err = ""

\* the number of (account id, matching transaction) pairs for a transaction id
PairsOf(json, ids, transaction_id) ==
    Cardinality({p \in ids \X DOMAIN json.items :
                    /\ json.items[p[2]].Id = transaction_id
                    /\ Matches(json.items[p[2]], p[1])})

C15_FailedQueryAborts ==
    \A n \in DOMAIN m_queried :
        m_queried[n].err # "" =>
            /\ n = Len(m_queried)
            /\ m_pc = "done"
            /\ m_err = m_queried[n].err
            /\ m_result = NothingReturned

\* the second query raised after the first gave rows, with an account left
C15_Witness ==
    /\ Len(m_queried) = 2
    /\ m_queried[1].err = ""
    /\ m_queried[2].err = "ValidationError"
    /\ transactions_per_account # <<>>
    /\ m_pending # {}
    /\ m_pc = "done"
    /\ ~m_result.returned

-----------------------------------------------------------------------------
(* Properties of the load stage, checked under SpecLoad. *)

\* whether the step of the entity has begun
Begun(entity, step) == \E n \in DOMAIN l_steps : l_steps[n] = <<entity, step>>

\* how many rows of a table are the row
CountOf(rows, row) == Cardinality({n \in DOMAIN rows : rows[n] = row})

\* how many rows of a table equal the row on every one of the columns
CountOnColumns(rows, row, columns) ==
    Cardinality({n \in DOMAIN rows : \A c \in columns : rows[n][c] = row[c]})

\* the rows of the run in the entity's staging table
StagedByRun(entity) == SelectSeq(db.staging[entity], LAMBDA r : r.run_id = run_id)

\* C16: a merge never takes a row out of its target table and never changes
\* one: every row the table had before the merge is there afterwards, as often
\* as before.
C16_MergeKeepsTargetRows ==
    [][\A e \in Entities :
          (/\ l_steps' = Append(l_steps, <<e, "merge">>)
           /\ l_err' = "")
              => \A n \in DOMAIN db.target[e] :
                    CountOf(db'.target[e], db.target[e][n])
                        >= CountOf(db.target[e], db.target[e][n])]_vars

\* the account merge has run with a staged row that has the id of a target
\* row and another name: the target row is there, the staged one is not
C16_Witness ==
    /\ Begun("account", "merge")
    /\ l_err = ""
    /\ \E n \in DOMAIN db.target["account"] :
          \E k \in DOMAIN StagedByRun("account") :
              /\ db.target["account"][n] \in Range(before.target["account"])
              /\ StagedByRun("account")[k].id = db.target["account"][n].id
              /\ StagedByRun("account")[k].name # db.target["account"][n].name
              /\ \A i \in DOMAIN db.target["account"] :
                    db.target["account"][i].name # StagedByRun("account")[k].name

\* C17: a target table never gets a row from a staging row of another run:
\* for a staging row with another run_id, the target rows with its key are
\* those the table had when the run began.
C17_OtherRunsRowsStayOut ==
    \A e \in Entities :
        \A n \in DOMAIN db.staging[e] :
            db.staging[e][n].run_id # run_id =>
                CountOnColumns(db.target[e], db.staging[e][n], IdMatchingColumns(e))
                    = CountOnColumns(before.target[e], db.staging[e][n],
                                     IdMatchingColumns(e))

\* the account merge has inserted a row of the run while the staging table
\* held another run's row, whose id no target row has
C17_Witness ==
    /\ Begun("account", "merge")
    /\ l_err = ""
    /\ Len(db.target["account"]) > Len(before.target["account"])
    /\ \E n \in DOMAIN db.staging["account"] :
          /\ db.staging["account"][n].run_id = "run-1"
          /\ \A i \in DOMAIN db.target["account"] :
                db.target["account"][i].id # db.staging["account"][n].id

\* the key of an entity's rows: id, and for account participation account_id
\* together with transaction_id
KeyOf(entity) ==
    IF entity = "account_transactions" THEN {"account_id", "transaction_id"}
    ELSE {"id"}

\* C18: once an entity's merge has run, a staged row of the run whose key (all
\* match columns together) some target row had before the run is not inserted,
\* and every other staged row of the run is: the target rows with its key are
\* the staged rows of the run with that key.
C18_MatchOnAllKeyColumns ==
    \A e \in Entities :
        (Begun(e, "merge") /\ l_pc # "merge" /\ l_err = "") =>
            \A n \in DOMAIN StagedByRun(e) :
                LET row == StagedByRun(e)[n]
                    had == CountOnColumns(before.target[e], row, KeyOf(e))
                IN  CountOnColumns(db.target[e], row, KeyOf(e))
                        = IF had > 0 THEN had
                          ELSE CountOnColumns(StagedByRun(e), row, KeyOf(e))

\* the participation merge has inserted a row that has the account_id of a
\* target row and another transaction_id
C18_Witness ==
    /\ Begun("account_transactions", "merge")
    /\ l_pc # "merge"
    /\ l_err = ""
    /\ \E i, k \in DOMAIN db.target["account_transactions"] :
          /\ db.target["account_transactions"][i]
                 \in Range(before.target["account_transactions"])
          /\ db.target["account_transactions"][k]
                 \notin Range(before.target["account_transactions"])
          /\ db.target["account_transactions"][i].account_id
                 = db.target["account_transactions"][k].account_id
          /\ db.target["account_transactions"][i].transaction_id
                 # db.target["account_transactions"][k].transaction_id

\* the nine steps of a run: accounts, transactions, account participation
StepsInOrder ==
    << <<"account", "export">>, <<"account", "stage">>, <<"account", "merge">>,
       <<"transaction", "export">>, <<"transaction", "stage">>,
       <<"transaction", "merge">>,
       <<"account_transactions", "export">>, <<"account_transactions", "stage">>,
       <<"account_transactions", "merge">> >>

\* C19: the steps a run has begun are the first steps of: export, stage and
\* merge of the accounts, then of the transactions, then of the account
\* participation; a run that has reached the end of the block has taken each
\* of the nine once.
C19_LoadsInOrder ==
    /\ Len(l_steps) <= Len(StepsInOrder)
    /\ l_steps = SubSeq(StepsInOrder, 1, Len(l_steps))
    /\ l_pc = "commit" => l_steps = StepsInOrder
    /\ l_committed => l_steps = StepsInOrder

\* a run that has committed after its nine steps
C19_Witness ==
    /\ l_committed
    /\ Len(l_steps) = 9
    /\ l_steps[4] = <<"transaction", "export">>
    /\ l_steps[9] = <<"account_transactions", "merge">>

\* C20: the committed target tables are those of the beginning of the run
\* until the connection commits, and a run that raised has not committed; the
\* commit comes after the three merges and makes the committed tables have,
\* for every entity, the rows they had and every record of the run whose key
\* no row had.
C20_AllLoadsOrNone ==
    /\ ~l_committed => committed.target = before.target
    /\ l_err # "" => ~l_committed
    /\ l_committed =>
          \A e \in Entities :
              /\ Begun(e, "merge")
              /\ \A n \in DOMAIN before.target[e] :
                    CountOf(committed.target[e], before.target[e][n])
                        >= CountOf(before.target[e], before.target[e][n])
              /\ \A n \in DOMAIN load_data[e] :
                    CountOnColumns(committed.target[e], load_data[e][n],
                                   KeyOf(e)) > 0

\* the participation merge raised after the account merge had inserted a row:
\* the committed account table is the one of the beginning
C20_Witness ==
    /\ l_err = "ProgrammingError"
    /\ l_steps = StepsInOrder
    /\ before.target["account"] = <<>>
    /\ load_data["account"] # <<>>
    /\ committed.target["account"] = <<>>
    /\ ~l_committed

-----------------------------------------------------------------------------
(* A property of transform_general_ledger_accounts on a None sub-account   *)
(* list, checked under SpecAccounts.                                       *)

\* C30: the call ends without an exception for every account list, also one
\* with an account whose sub_accounts is None, and such an account gives one
\* record, as an account with an empty sub-account list does.
C30_NoneSubAccountsFlattened ==
    a_pc = "done" =>
        /\ a_err = ""
        /\ (Len(accounts) = 1 /\ accounts[1].sub_accounts = NoneList)
              => Len(transformed) = 1

-----------------------------------------------------------------------------
(* Properties of the export, of the provenance of the rows merged and of   *)
(* failures in the load stage, checked under SpecLoad.                     *)

\* the fields of the records that hold a nested object or a sequence
NestedFields == {"lines", "unit_agreement"}

\* C21: the file written for a record list that is not empty has one row per
\* record, in the records' order; a row has the columns of its record and
\* run_id and inserted_at, run_id is the run's token, inserted_at is a time of
\* the export, a nested object or sequence is there as its JSON text and every
\* other value as it is in the record.
C21_OneStampedRowPerRecord ==
    \A e \in Entities :
        (csv_files[e].exists /\ load_data[e] # <<>>) =>
            /\ Len(csv_files[e].rows) = Len(load_data[e])
            /\ \A n \in DOMAIN csv_files[e].rows \cap DOMAIN load_data[e] :
                  LET row == csv_files[e].rows[n]
                      record == load_data[e][n]
                  IN  /\ DOMAIN row = (DOMAIN record) \cup {"run_id", "inserted_at"}
                      /\ row.run_id = run_id
                      /\ row.inserted_at >= 1
                      /\ row.inserted_at <= clock
                      /\ \A c \in DOMAIN record :
                            IF c \in NestedFields
                            THEN row[c] = [json |-> record[c]]
                            ELSE row[c] = record[c]

\* the file of two transactions has been written: two rows in order, with the
\* lines and the unit agreement as JSON text
C21_Witness ==
    /\ csv_files["transaction"].exists
    /\ Len(load_data["transaction"]) = 2
    /\ Len(csv_files["transaction"].rows) = 2
    /\ csv_files["transaction"].rows[1].id = load_data["transaction"][1].id
    /\ csv_files["transaction"].rows[2].memo = load_data["transaction"][2].memo
    /\ csv_files["transaction"].rows[1].lines = [json |-> load_data["transaction"][1].lines]
    /\ csv_files["transaction"].rows[2].unit_agreement
           = [json |-> load_data["transaction"][2].unit_agreement]
    /\ csv_files["transaction"].rows[1].inserted_at
           # csv_files["transaction"].rows[2].inserted_at

\* C23: every row a run's merge has put into a target table has the run's
\* token in run_id and a value in inserted_at.
C23_InsertedRowsCarryProvenance ==
    \A e \in Entities :
        \A n \in DOMAIN db.target[e] :
            n > Len(before.target[e]) =>
                /\ {"run_id", "inserted_at"} \subseteq DOMAIN db.target[e][n]
                /\ db.target[e][n].run_id = run_id

\* C25: a run in which a step has raised has ended there: it is at its end
\* and has not committed, and from then on no step begins and no commit comes.
C25_FailFast ==
    [][l_err' # "" =>
          /\ l_pc' = "done"
          /\ ~l_committed'
          /\ l_err # "" => (l_steps' = l_steps /\ committed' = committed)]_vars

\* the stage step of the accounts has raised: it is the last step begun
C25_Witness ==
    /\ l_err = "ProgrammingError"
    /\ l_steps = << <<"account", "export">>, <<"account", "stage">> >>
    /\ l_pc = "done"
    /\ ~l_committed

\* C29: the load of an empty record list raises in its export: no stage and no
\* merge of that entity begins, the run ends there without a commit, and the
\* committed tables are those of the run's beginning.
C29_EmptyListFailsInExport ==
    \A e \in Entities :
        (load_data[e] = <<>> /\ Begun(e, "export")) =>
            /\ l_err # ""
            /\ l_steps[Len(l_steps)] = <<e, "export">>
            /\ ~Begun(e, "stage")
            /\ ~Begun(e, "merge")
            /\ l_pc = "done"
            /\ ~l_committed
            /\ committed = before

\* the export of an empty transaction list raised after the account merge
\* had inserted a row, which is not committed
C29_Witness ==
    /\ load_data["transaction"] = <<>>
    /\ l_err = "IndexError"
    /\ Begun("account", "merge")
    /\ before.target["account"] = <<>>
    /\ load_data["account"] # <<>>
    /\ committed.target["account"] = <<>>
    /\ csv_files["transaction"] = [exists |-> TRUE, rows |-> <<>>]
    /\ ~l_committed

-----------------------------------------------------------------------------
(* A property of repeated merges, checked under SpecMerge. *)

\* C22: a merge that comes after a merge with the same staging rows and the
\* same run token inserts no row: it leaves the target tables as the merge
\* before it left them.
C22_SecondMergeInsertsNothing ==
    [][(l_steps # <<>> /\ l_steps' # l_steps) => db'.target = db.target]_vars

\* two merges have run and the target table has more rows than at the
\* beginning, among them two with one key
C22_Witness ==
    /\ Len(l_steps) = 2
    /\ l_err = ""
    /\ LET rows == db.target[LoadOrder[l_entity]]
           key == KeyOf(LoadOrder[l_entity])
       IN  /\ Len(rows) > Len(before.target[LoadOrder[l_entity]])
           /\ \E n \in DOMAIN rows : CountOnColumns(rows, rows[n], key) = 2

-----------------------------------------------------------------------------
(* A property of transactions_json_search, checked under SpecExtract. *)

\* whether a line of the transaction's journal has a GLAccount of the id
HasLineOfAccount(json_transaction, id) ==
    /\ json_transaction.HasJournal
    /\ json_transaction.Journal.HasLines
    /\ \E i \in DOMAIN json_transaction.Journal.Lines :
          /\ json_transaction.Journal.Lines[i].HasGLAccount
          /\ json_transaction.Journal.Lines[i].GLAccount.Id = id

\* a transaction without Journal, without Lines, or whose lines have either no
\* GLAccount or a GLAccount with an Id
WithoutJournalOrPlain(json_transaction) ==
    \/ ~json_transaction.HasJournal
    \/ ~json_transaction.Journal.HasLines
    \/ \A i \in DOMAIN json_transaction.Journal.Lines :
          \/ ~json_transaction.Journal.Lines[i].HasGLAccount
          \/ json_transaction.Journal.Lines[i].GLAccount.Id # MissingInt

\* C24: the text transactions_json_search returns holds exactly the
\* transactions of its input that have a journal line whose GLAccount.Id is the
\* given id, in the input's order and each of them once; and on an input whose
\* transactions lack Journal, Lines or GLAccount here and there the search
\* returns, it does not raise.
C24_SearchKeepsMatchingTransactions ==
    (/\ call = "get_general_ledger_transactions"
     /\ ~json_data.is_none
     /\ json_data.parses
     /\ ~FalsyInt(general_account_id)
     /\ pc # "start")
        => /\ filtered =>
                /\ json_text.parses
                /\ json_text.items =
                       SelectSeq(json_data.items,
                                 LAMBDA t : HasLineOfAccount(t, general_account_id))
           /\ (\A n \in DOMAIN json_data.items :
                   WithoutJournalOrPlain(json_data.items[n]))
                => filtered /\ err # "KeyError"

\* the search has returned one transaction of a payload of two: one in which
\* two lines are of the account and one which has no Journal, no Lines or a
\* line without GLAccount
C24_Witness ==
    /\ call = "get_general_ledger_transactions"
    /\ filtered
    /\ Len(json_data.items) = 2
    /\ Len(json_text.items) = 1
    /\ Cardinality({i \in DOMAIN json_text.items[1].Journal.Lines :
                       json_text.items[1].Journal.Lines[i].GLAccount.Id
                           = general_account_id}) = 2
    /\ \E n \in DOMAIN json_data.items :
          \/ ~json_data.items[n].HasJournal
          \/ ~json_data.items[n].Journal.HasLines
          \/ \E i \in DOMAIN json_data.items[n].Journal.Lines :
                ~json_data.items[n].Journal.Lines[i].HasGLAccount

-----------------------------------------------------------------------------
(* Properties of the runs of the pipeline, checked under SpecPipeline. *)

\* the values of a column of the rows
ColumnValues(rows, column) == {rows[n][column] : n \in DOMAIN rows}

\* whether no two rows have the same value in the column
UniqueOn(rows, column) ==
    \A i, j \in DOMAIN rows : rows[i][column] = rows[j][column] => i = j

\* C26: when a run comes to its load stage, the transaction ids of the
\* participation rows it loads are the ids of the transformed transactions it
\* loads, and the account id of every participation row is the id of a
\* flattened account it loads.
C26_RowsPointToLoadedRecords ==
    p_pc = "load" =>
        /\ ColumnValues(load_data.account_transactions, "transaction_id")
               = ColumnValues(load_data.transaction, "id")
        /\ ColumnValues(load_data.account_transactions, "account_id")
               \subseteq ColumnValues(load_data.account, "id")

\* a run is at its load stage with rows of two accounts and two transactions,
\* one of the transactions being of both accounts
C26_Witness ==
    /\ p_pc = "load"
    /\ Cardinality(ColumnValues(load_data.account_transactions, "account_id")) = 2
    /\ Cardinality(ColumnValues(load_data.transaction, "id")) = 2
    /\ Len(load_data.account_transactions) = 3
    /\ Len(all_transactions) > Len(load_data.transaction)

\* C27: from an empty transaction table on, whatever runs there have been, the
\* transaction table as committed holds at most one row per transaction id.
C27_OneRowPerTransactionId == UniqueOn(committed.target.transaction, "id")

\* the second run has committed: the table held transactions before it, the
\* run loaded a transaction whose id the table held and one whose id it did
\* not hold
C27_Witness ==
    /\ p_runs = 2
    /\ l_committed
    /\ before.target.transaction # <<>>
    /\ Len(committed.target.transaction) > Len(before.target.transaction)
    /\ \E n \in DOMAIN load_data.transaction :
          load_data.transaction[n].id \in ColumnValues(before.target.transaction, "id")

\* C28: from an empty account table on, the account table as committed holds
\* at most one row per account id, also after a run whose flattened accounts
\* have an id twice.
C28_OneRowPerAccountId == UniqueOn(committed.target.account, "id")

====
